---------------------------- MODULE Spec2Model ----------------------------
(***************************************************************************)
(* OpenSati: the stress detector (core/detector.py), its input sensor      *)
(* (core/sensors.py) and the intent checker (ai/intent.py).                *)
(*                                                                         *)
(* Units.  Time is in whole seconds (time.time()).  Sub-scores             *)
(* (input_score, breathing_score, posture_score) are whole points 0..100   *)
(* and above; the composite score is kept in TENTHS of a point, so that    *)
(* the weights 0.5 / 0.3 / 0.2 are the integers 5 / 3 / 2 and the level    *)
(* thresholds 30 / 60 / 85 are 300 / 600 / 850.  A baseline sample is kept *)
(* as the count it was computed from (rate = count / window_size); the     *)
(* rates and means of a SensorState are kept as fractions num / den.       *)
(***************************************************************************)
EXTENDS Integers, Sequences, FiniteSets, TLC

VARIABLES
    now,                    \* time.time(): the wall clock
    cooldown,               \* settings.intervention.cooldown
    stress_threshold,       \* settings.detection.stress_threshold
    input_sensor,           \* StressDetector._input_sensor: which object is attached
    last_intervention_time, \* StressDetector._last_intervention_time
    current_level,          \* StressDetector._current_level
    stress_log,             \* the on_stress_detected invocations, in order
    calm_count,             \* the number of on_calm_restored invocations
    tick_log,               \* one record per check_and_intervene call, in order
    tick,                   \* the last check_and_intervene call in detail
    op,                     \* the operation performed last
    state,                  \* the DetectorState returned last
    ret,                    \* the value check_and_intervene returned last
    running,                \* InputSensor._running
    start_time,             \* InputSensor._start_time
    keystroke_times,        \* InputSensor._keystroke_times
    click_times,            \* InputSensor._click_times
    baseline_samples,       \* InputSensor._baseline_samples
    pc,                     \* concurrent callers: each caller's position
    local,                  \* concurrent callers: each caller's local variables
    fusion_in,              \* fusion as a function: the three sub-scores
    fusion_out,             \* fusion as a function: the composite and level computed
    window_size,            \* InputSensor.window_size
    mouse_positions,        \* InputSensor._mouse_positions
    lock,                   \* InputSensor._lock: the thread holding it
    sensor_state,           \* the SensorState InputSensor.get_state returned last
    sensor_ret,             \* the value InputSensor.check_stress returned last
    sensor_calls,           \* the sensor's on_stress_detected invocations, in order
    score_in,               \* the stress score as a function: count and threshold
    score_out,              \* the stress score as a function: the scores computed
    intent_running,         \* IntentChecker._running
    current_intent,         \* IntentChecker._current_intent
    check_interval,         \* IntentChecker.check_interval
    mismatch_threshold,     \* IntentChecker.mismatch_threshold, in seconds
    last_check,             \* IntentChecker._last_check
    mismatch_start,         \* IntentChecker._mismatch_start
    last_explanation,       \* IntentChecker._last_explanation
    intent_state,           \* the IntentState IntentChecker.check returned last
    check_log,              \* the last IntentChecker.check call in detail
    judgment_log,           \* the times of the check_intent_match invocations
    mismatch_log,           \* the on_mismatch_detected invocations, in order
    mismatch_run,           \* the time of the first mismatch judgment since the last
                            \* match judgment, set_intent or clear_intent
    listeners,              \* InputSensor._keyboard_listener, _mouse_listener: those attached
    app_running,            \* OpenSatiApp._running
    monitor,                \* the monitor thread's position in _monitor_loop
    paused,                 \* SystemTray.is_paused
    error,                  \* the exception the last call raised
    posture,                \* PostureDetector: _running, _last_check, _last_angle, _was_bad_posture
    posture_state,          \* the PostureState the last check_posture returned
    posture_call,           \* what the last check_posture did: acquisition, callbacks
    audio,                  \* AudioSensor: _running, _last_rate
    breathing_state,        \* the BreathingState the last AudioSensor.get_state returned
    audio_call,             \* what the last AudioSensor.get_state did: estimation, outcome
    settings,               \* a Settings object about to be saved
    file,                   \* the data Settings.save wrote to the path
    loaded,                 \* the Settings object Settings.load returned
    event,                  \* the event the listener passed to the last InputSensor callback
    gray,                   \* GrayscaleEffect: _active, _saturation, _restore_timer
    display,                \* the level of the last _apply_saturation call
    fade,                   \* the fade thread: its position and loop index
    restore                 \* the caller of restore(): its position

vars == <<now, cooldown, stress_threshold, input_sensor, last_intervention_time,
          current_level, stress_log, calm_count, tick_log, tick, op, state, ret,
          running, start_time, keystroke_times, click_times, baseline_samples,
          pc, local, fusion_in, fusion_out, window_size, mouse_positions, lock,
          sensor_state, sensor_ret, sensor_calls, score_in, score_out,
          intent_running, current_intent, check_interval, mismatch_threshold,
          last_check, mismatch_start, last_explanation, intent_state, check_log,
          judgment_log, mismatch_log, mismatch_run, listeners, app_running,
          monitor, paused, error, posture, posture_state, posture_call, audio,
          breathing_state, audio_call, settings, file, loaded, event, gray, display, fade,
          restore>>

detectorVars == <<last_intervention_time, current_level, stress_log, calm_count,
                  tick_log, tick, ret>>
sensorVars   == <<running, listeners, start_time, keystroke_times, click_times,
                  baseline_samples>>
settingVars  == <<cooldown, stress_threshold, input_sensor, window_size>>
raceVars     == <<pc, local>>
fusionVars   == <<fusion_in, fusion_out>>
sensorCallVars == <<sensor_state, sensor_ret, sensor_calls>>
threadVars   == <<mouse_positions, lock>>
scoreVars    == <<score_in, score_out>>
intentSettingVars == <<check_interval, mismatch_threshold>>
intentVars   == <<intent_running, current_intent, last_check, mismatch_start,
                  last_explanation, intent_state, check_log, judgment_log,
                  mismatch_log, mismatch_run, intentSettingVars>>
appVars      == <<app_running, monitor, paused, error>>
postureVars  == <<posture, posture_state, posture_call>>
audioVars    == <<audio, breathing_state, audio_call>>
fileVars     == <<settings, file, loaded>>
grayVars     == <<gray, display, fade, restore>>
extVars      == <<postureVars, audioVars, fileVars, event, grayVars>>
otherVars    == <<sensorCallVars, threadVars, scoreVars, intentVars, appVars, extVars>>

----------------------------------------------------------------------------
(* Bounds of the model *)

MaxCooldown == 2        \* cooldown settings 1..MaxCooldown
Horizon     == 2        \* the clock runs from Epoch to Epoch + Horizon
MaxLag      == 1        \* seconds that may pass inside one check_and_intervene
MaxTicks    == 4        \* check_and_intervene calls in one run
MaxKeys     == 2        \* keystrokes recorded in one run
MaxClicks   == 1        \* mouse clicks recorded in one run
MaxSamples  == 1        \* baseline samples collected in one run
BaselineDuration == 1   \* settings.detection.baseline_window, in seconds
MaxRaceCalls == 2       \* check_and_intervene calls in one run of concurrent callers
MaxCount    == 12       \* keystroke counts 0..MaxCount given to the stress score
MaxInterval == 2        \* check_interval settings 1..MaxInterval, in seconds

\* time.time() counts seconds since 1970: it is far beyond every cooldown and
\* every baseline window the settings hold.
Epoch == MaxCooldown + 10

MaxTime == Epoch + Horizon

\* DetectionConfig.stress_threshold
DefaultStressThreshold == 50

\* InterventionConfig.cooldown
DefaultCooldown == 120

\* the stress thresholds (keystrokes per window) of the model's settings
StressThresholds == {2, 5}

\* InputSensor(window_size=10.0, ...) as StressDetector.__post_init__ builds it
WindowSize == 10

\* deque(maxlen=1000), deque(maxlen=500)
KeystrokeMaxlen == 1000

ClickMaxlen == 500

\* the three capacities scaled down for the sensor under its threads:
\* deque(maxlen=1000), deque(maxlen=500), deque(maxlen=100)
ScaledKeystrokeMaxlen == 2

ScaledClickMaxlen == 1

ScaledMouseMaxlen == 1

\* IntentConfig.check_interval, in seconds
DefaultCheckInterval == 30

\* IntentConfig.mismatch_threshold, in minutes
DefaultMismatchThreshold == 2

\* None where a time is expected (_mismatch_start: float | None = None)
NoTime == -1

\* None where a score is expected (check_stress -> float | None)
NoScore == -1

----------------------------------------------------------------------------
(* StressLevel and DetectorState *)

CALM     == "calm"
MODERATE == "moderate"
HIGH     == "high"
CRITICAL == "critical"

StressLevel == {CALM, MODERATE, HIGH, CRITICAL}

\* DetectorState's defaults: the state before any get_state has returned
DetectorState ==
    [level |-> CALM, score |-> 0, input_score |-> 0, breathing_score |-> 0,
     posture_score |-> 0, last_intervention |-> 0, can_intervene |-> TRUE]

InitLastInterventionTimeAtConstruction == Epoch

\* _last_intervention_time: float = 0.0
InitLastInterventionTime == 0

InitCurrentLevel == CALM

\* a rate or a mean, kept as the fraction num / den
Zero == [num |-> 0, den |-> 1]

\* SensorState's defaults: the state before any InputSensor.get_state has returned
SensorState ==
    [keystrokes_per_second |-> Zero, mouse_clicks_per_second |-> Zero,
     mouse_distance_per_second |-> Zero, current_stress_score |-> 0,
     baseline_typing_speed |-> Zero, is_calibrating |-> TRUE]

\* IntentState's defaults
IntentState ==
    [current_intent |-> "", last_check_time |-> 0, last_match |-> TRUE,
     last_explanation |-> "", mismatch_duration |-> 0, is_enabled |-> FALSE]

----------------------------------------------------------------------------
(* StressDetector.get_state *)

CanInterveneAtCooldown(t, last, cd) == (t - last) >= cd

\* can_intervene = (now - self._last_intervention_time) > cooldown
CanIntervene(t, last, cd) == (t - last) > cd

\* breathing_score = 0.0 ; posture_score = 0.0 (placeholders)
BreathingScore == 0

PostureScore == 0

FusionRenormalised(i, b, p) ==
    IF b = 0 /\ p = 0 THEN 10 * i ELSE 5 * i + 3 * b + 2 * p

FusionInputDiscount(i, b, p) == 3 * b + 2 * p - 5 * i

\* total_score = input_score * 0.5 + breathing_score * 0.3 + posture_score * 0.2
\* (in tenths of a point)
Fusion(i, b, p) == 5 * i + 3 * b + 2 * p

LevelOfInclusive(total) ==
    IF total <= 300 THEN CALM
    ELSE IF total <= 600 THEN MODERATE
    ELSE IF total <= 850 THEN HIGH
    ELSE CRITICAL

\* the if / elif chain over total_score (total in tenths of a point)
LevelOf(total) ==
    IF total < 300 THEN CALM
    ELSE IF total < 600 THEN MODERATE
    ELSE IF total < 850 THEN HIGH
    ELSE CRITICAL

\* The weighted fusion and the level, as get_state computes them from three
\* sub-scores.
FusedState(i, b, p) ==
    LET total == Fusion(i, b, p) IN
    [level           |-> LevelOf(total),
     score           |-> total,
     input_score     |-> i,
     breathing_score |-> b,
     posture_score   |-> p]

\* The DetectorState get_state returns at clock reading t, with the attached
\* sensor reporting current_stress_score = input_score.
GetStateResult(t, last, cd, input_score) ==
    LET fused == FusedState(input_score, BreathingScore, PostureScore) IN
    [level             |-> fused.level,
     score             |-> fused.score,
     input_score       |-> fused.input_score,
     breathing_score   |-> fused.breathing_score,
     posture_score     |-> fused.posture_score,
     last_intervention |-> last,
     can_intervene     |-> CanIntervene(t, last, cd)]

----------------------------------------------------------------------------
(* StressDetector.check_and_intervene *)

CalmRestoredFromAnyRaise(previous_level, level) ==
    previous_level # CALM /\ level = CALM

\* previous_level in (HIGH, CRITICAL) and state.level == CALM
CalmRestored(previous_level, level) ==
    previous_level \in {HIGH, CRITICAL} /\ level = CALM

InterventionNeededWhenAllowed(st) == st.can_intervene

InterventionNeededIgnoringCooldown(st) == st.level \in {HIGH, CRITICAL}

\* state.level in (HIGH, CRITICAL) and state.can_intervene
InterventionNeeded(st) ==
    st.level \in {HIGH, CRITICAL} /\ st.can_intervene

NextInterventionTimeStale(st, last, t2) == last

\* self._last_intervention_time = time.time(), on the intervention branch only
NextInterventionTime(st, last, t2) ==
    IF InterventionNeeded(st) THEN t2 ELSE last

\* The whole of check_and_intervene after its get_state returned st at clock
\* reading t; t2 is the later clock reading of the intervention branch.
Arbitrate(st, t, t2) ==
    LET previous_level == current_level
        calm  == CalmRestored(previous_level, st.level)
        fires == InterventionNeeded(st)
    IN  /\ current_level' = st.level
        /\ calm_count' = IF calm THEN calm_count + 1 ELSE calm_count
        /\ last_intervention_time' =
               NextInterventionTime(st, last_intervention_time, t2)
        /\ stress_log' =
               IF fires
               THEN Append(stress_log,
                           [level |-> st.level, score |-> st.score,
                            tick |-> Len(tick_log) + 1, t |-> t, at |-> t2])
               ELSE stress_log
        /\ tick_log' = Append(tick_log, [level |-> st.level, calm_restored |-> calm])
        /\ tick' = [t |-> t, last_before |-> last_intervention_time,
                    calls_before |-> Len(stress_log)]
        /\ ret' = fires
        /\ state' = st
        /\ now' = t2

----------------------------------------------------------------------------
(* The detector with an injected sensor: _input_sensor is any object whose  *)
(* get_state() reports a current_stress_score; the scores it may report.    *)

InjectedScores == {0, 59, 60, 119, 120, 170}

\* time passes between two calls
Advance ==
    /\ \E t \in (now + 1)..MaxTime : now' = t
    /\ op' = "advance"
    /\ UNCHANGED <<settingVars, otherVars, detectorVars, state, sensorVars, raceVars, fusionVars>>

\* StressDetector.check_and_intervene() with the injected sensor reporting s
InjectedCheckAndIntervene ==
    /\ input_sensor = "Injected"
    /\ Len(tick_log) < MaxTicks
    /\ \E s \in InjectedScores, lag \in 0..MaxLag :
          /\ now + lag <= MaxTime
          /\ Arbitrate(GetStateResult(now, last_intervention_time, cooldown, s),
                       now, now + lag)
    /\ op' = "check_and_intervene"
    /\ UNCHANGED <<settingVars, otherVars, sensorVars, raceVars, fusionVars>>

InitDetector ==
    /\ now = Epoch
    /\ last_intervention_time = InitLastInterventionTime
    /\ current_level = InitCurrentLevel
    /\ stress_log = <<>>
    /\ calm_count = 0
    /\ tick_log = <<>>
    /\ tick = [t |-> 0, last_before |-> 0, calls_before |-> 0]
    /\ op = "init"
    /\ state = DetectorState
    /\ ret = FALSE

InitSensorIdle ==
    /\ running = FALSE
    /\ listeners = {}
    /\ start_time = 0
    /\ keystroke_times = <<>>
    /\ click_times = <<>>
    /\ baseline_samples = <<>>

InitRaceIdle ==
    /\ pc = <<>>
    /\ local = <<>>

InitFusionIdle ==
    /\ fusion_in = <<>>
    /\ fusion_out = <<>>

InitSensorCallIdle ==
    /\ sensor_state = SensorState
    /\ sensor_ret = NoScore
    /\ sensor_calls = <<>>

InitThreadIdle ==
    /\ mouse_positions = <<>>
    /\ lock = "free"

InitScoreIdle ==
    /\ score_in = <<>>
    /\ score_out = <<>>

InitIntentIdle ==
    /\ intent_running = FALSE
    /\ current_intent = ""
    /\ check_interval = DefaultCheckInterval
    /\ mismatch_threshold = DefaultMismatchThreshold * 60
    /\ last_check = 0
    /\ mismatch_start = NoTime
    /\ last_explanation = ""
    /\ intent_state = IntentState
    /\ check_log = [gate |-> "none", captures |-> 0, image |-> "None",
                    judgments |-> 0, callbacks |-> 0]
    /\ judgment_log = <<>>
    /\ mismatch_log = <<>>
    /\ mismatch_run = NoTime

InitExtIdle ==
    /\ posture = <<>>
    /\ posture_state = <<>>
    /\ posture_call = <<>>
    /\ audio = <<>>
    /\ breathing_state = <<>>
    /\ audio_call = <<>>
    /\ settings = <<>>
    /\ file = <<>>
    /\ loaded = <<>>
    /\ event = [kind |-> "none"]
    /\ gray = <<>>
    /\ display = <<>>
    /\ fade = <<>>
    /\ restore = <<>>

InitAppIdle ==
    /\ app_running = FALSE
    /\ monitor = "none"
    /\ paused = FALSE
    /\ error = "none"

InitOtherIdle ==
    /\ InitAppIdle
    /\ InitExtIdle
    /\ InitSensorCallIdle
    /\ InitThreadIdle
    /\ InitScoreIdle
    /\ InitIntentIdle

InitArbiter ==
    /\ InitDetector
    /\ cooldown \in 1..MaxCooldown
    /\ stress_threshold = DefaultStressThreshold
    /\ input_sensor = "Injected"
    /\ InitSensorIdle
    /\ window_size = WindowSize
    /\ InitOtherIdle
    /\ InitRaceIdle
    /\ InitFusionIdle

NextArbiter ==
    \/ Advance
    \/ InjectedCheckAndIntervene

SpecArbiter == InitArbiter /\ [][NextArbiter]_vars

----------------------------------------------------------------------------
(* InputSensor *)

DequeAppendDropNewest(d, x, maxlen) ==
    IF Len(d) < maxlen THEN Append(d, x) ELSE Append(SubSeq(d, 1, Len(d) - 1), x)

\* deque(maxlen=...).append: a full deque drops its oldest entry
DequeAppend(d, x, maxlen) ==
    IF Len(d) < maxlen THEN Append(d, x) ELSE Append(Tail(d), x)

RecentCountInclusive(times, t) ==
    Cardinality({n \in 1..Len(times) : times[n] >= t - window_size})

\* sum(1 for t in times if t > window_start), window_start = now - window_size
RecentCount(times, t) ==
    Cardinality({n \in 1..Len(times) : times[n] > t - window_size})

IsCalibratingAlways(t, start) == TRUE

\* is_calibrating = (now - self._start_time) < self.baseline_duration
IsCalibrating(t, start) == (t - start) < BaselineDuration

Min(a, b) == IF a < b THEN a ELSE b

StressScoreOfRate(recent_keystrokes, threshold) ==
    Min(100, (recent_keystrokes * 100) \div (threshold * WindowSize))

\* stress_score = min(100, (recent_keystrokes / self.stress_threshold) * 100);
\* the thresholds of the model divide 100 * recent_keystrokes exactly
StressScore(recent_keystrokes, threshold) ==
    Min(100, (recent_keystrokes * 100) \div threshold)

NextBaselineSamplesWhenTyping(samples, t, start, recent_keystrokes) ==
    IF recent_keystrokes > 0 THEN Append(samples, recent_keystrokes) ELSE samples

\* if is_calibrating and recent_keystrokes > 0:
\*     self._baseline_samples.append(keystrokes_per_second)
NextBaselineSamples(samples, t, start, recent_keystrokes) ==
    IF IsCalibrating(t, start) /\ recent_keystrokes > 0
    THEN Append(samples, recent_keystrokes)
    ELSE samples

\* the keyboard listener and the mouse listener start() creates
Listeners == {"keyboard", "mouse"}

\* InputSensor.start(), reached through StressDetector.start()
Start ==
    /\ input_sensor = "InputSensor"
    /\ ~running
    /\ running' = TRUE
    /\ listeners' = Listeners
    /\ start_time' = now
    /\ op' = "start"
    /\ UNCHANGED <<now, settingVars, otherVars, detectorVars, state, keystroke_times, click_times,
                   baseline_samples, raceVars, fusionVars>>

\* InputSensor._on_key_press, called by the keyboard listener
OnKeyPress ==
    /\ input_sensor = "InputSensor"
    /\ running
    /\ Len(keystroke_times) < MaxKeys
    /\ keystroke_times' = DequeAppend(keystroke_times, now, KeystrokeMaxlen)
    /\ op' = "key_press"
    /\ UNCHANGED <<now, settingVars, otherVars, detectorVars, state, running, listeners, start_time,
                   click_times, baseline_samples, raceVars, fusionVars>>

\* InputSensor._on_mouse_click, called by the mouse listener
OnMouseClick ==
    /\ input_sensor = "InputSensor"
    /\ running
    /\ Len(click_times) < MaxClicks
    /\ \E pressed \in BOOLEAN :
          click_times' = IF pressed
                         THEN DequeAppend(click_times, now, ClickMaxlen)
                         ELSE click_times
    /\ op' = "mouse_click"
    /\ UNCHANGED <<now, settingVars, otherVars, detectorVars, state, running, listeners, start_time,
                   keystroke_times, baseline_samples, raceVars, fusionVars>>

StopLeavingListeners ==
    /\ input_sensor = "InputSensor"
    /\ running' = FALSE
    /\ op' = "stop"
    /\ UNCHANGED <<now, settingVars, otherVars, detectorVars, state, start_time, listeners,
                   keystroke_times, click_times, baseline_samples, raceVars, fusionVars>>

\* InputSensor.stop(): the listeners are stopped and dropped; the buffers,
\* the baseline samples and _start_time stay as they are
Stop ==
    /\ input_sensor = "InputSensor"
    /\ running' = FALSE
    /\ listeners' = {}
    /\ op' = "stop"
    /\ UNCHANGED <<now, settingVars, otherVars, detectorVars, state, start_time,
                   keystroke_times, click_times, baseline_samples, raceVars, fusionVars>>

\* count / self.window_size
Rate(count) == [num |-> count, den |-> window_size]

RECURSIVE SumSeq(_)
\* sum(self._baseline_samples), each sample kept as its count
SumSeq(samples) ==
    IF samples = <<>> THEN 0 ELSE Head(samples) + SumSeq(Tail(samples))

\* baseline = sum(self._baseline_samples) / len(self._baseline_samples), 0.0
\* for an empty list; every sample is a count over the same window_size
Baseline(samples) ==
    IF samples = <<>>
    THEN Zero
    ELSE [num |-> SumSeq(samples), den |-> Len(samples) * window_size]

\* equality of two fractions
SameFraction(a, b) == a.num * b.den = b.num * a.den

\* (...) ** 0.5 on the squares the model's mouse positions produce
Sqrt(n) == CHOOSE r \in 0..n : r * r = n

\* [(t, x, y) for t, x, y in self._mouse_positions if t > window_start]
RecentPositions(positions, t) ==
    SelectSeq(positions, LAMBDA e : e.t > t - window_size)

RECURSIVE PathLength(_)
\* the sum of the distances between consecutive recent positions
PathLength(positions) ==
    IF Len(positions) < 2
    THEN 0
    ELSE Sqrt((positions[2].x - positions[1].x) * (positions[2].x - positions[1].x)
              + (positions[2].y - positions[1].y) * (positions[2].y - positions[1].y))
         + PathLength(Tail(positions))

\* the SensorState InputSensor.get_state() returns at clock reading t, the
\* calibration flag being the one it computed before it took the lock
SensorStateAt(t, is_calibrating, keys, clicks, positions, samples) ==
    [keystrokes_per_second |-> Rate(RecentCount(keys, t)),
     mouse_clicks_per_second |-> Rate(RecentCount(clicks, t)),
     mouse_distance_per_second |-> Rate(PathLength(RecentPositions(positions, t))),
     current_stress_score |-> StressScore(RecentCount(keys, t), stress_threshold),
     baseline_typing_speed |-> Baseline(samples),
     is_calibrating |-> is_calibrating]

\* InputSensor.get_state(), called on the sensor itself
SensorGetState ==
    /\ input_sensor = "InputSensor"
    /\ LET samples == NextBaselineSamples(baseline_samples, now, start_time,
                                          RecentCount(keystroke_times, now))
       IN  /\ Len(samples) <= MaxSamples
           /\ baseline_samples' = samples
           /\ sensor_state' = SensorStateAt(now, IsCalibrating(now, start_time),
                                            keystroke_times, click_times,
                                            mouse_positions, samples)
    /\ op' = "sensor_get_state"
    /\ UNCHANGED <<now, settingVars, detectorVars, state, running, listeners, start_time,
                   keystroke_times, click_times, raceVars, fusionVars, sensor_ret,
                   sensor_calls, threadVars, scoreVars, intentVars, appVars, extVars>>

CheckStressResultIgnoringCalibration(st) ==
    IF st.current_stress_score >= 100 THEN st.current_stress_score ELSE NoScore

\* what check_stress returns for the state its get_state produced
CheckStressResult(st) ==
    IF st.is_calibrating
    THEN NoScore
    ELSE IF st.current_stress_score >= 100 THEN st.current_stress_score ELSE NoScore

\* InputSensor.check_stress() with an on_stress_detected callback installed;
\* sensor_calls holds the invocations this call made
CheckStress ==
    /\ input_sensor = "InputSensor"
    /\ LET samples == NextBaselineSamples(baseline_samples, now, start_time,
                                          RecentCount(keystroke_times, now))
           st == SensorStateAt(now, IsCalibrating(now, start_time),
                               keystroke_times, click_times, mouse_positions, samples)
       IN  /\ Len(samples) <= MaxSamples
           /\ baseline_samples' = samples
           /\ sensor_state' = st
           /\ sensor_ret' = CheckStressResult(st)
           /\ sensor_calls' = IF CheckStressResult(st) # NoScore
                              THEN <<st.current_stress_score>>
                              ELSE <<>>
    /\ op' = "check_stress"
    /\ UNCHANGED <<now, settingVars, detectorVars, state, running, listeners, start_time,
                   keystroke_times, click_times, raceVars, fusionVars,
                   threadVars, scoreVars, intentVars, appVars, extVars>>

\* the window sizes of the model's sensors
WindowSizes == {1, 2}

\* a sensor on its own: InputSensor(window_size, baseline_duration, stress_threshold)
InitSensor ==
    /\ InitDetector
    /\ cooldown = DefaultCooldown
    /\ stress_threshold \in StressThresholds
    /\ input_sensor = "InputSensor"
    /\ window_size \in WindowSizes
    /\ running = FALSE
    /\ listeners = {}
    /\ start_time = 0
    /\ keystroke_times = <<>>
    /\ click_times = <<>>
    /\ baseline_samples = <<>>
    /\ InitRaceIdle
    /\ InitFusionIdle
    /\ InitOtherIdle

NextSensor ==
    \/ Advance
    \/ Start
    \/ Stop
    \/ OnKeyPress
    \/ OnMouseClick
    \/ SensorGetState
    \/ CheckStress

SpecSensor == InitSensor /\ [][NextSensor]_vars

----------------------------------------------------------------------------
(* The shipped detector: _input_sensor is the InputSensor __post_init__     *)
(* builds, or None when keyboard and mouse are both switched off.           *)

\* input_score as get_state reads it from the attached sensor at clock reading t
InputScore(t) ==
    IF input_sensor = "InputSensor"
    THEN StressScore(RecentCount(keystroke_times, t), stress_threshold)
    ELSE 0

\* what the sensor's own get_state, called inside the detector's, leaves behind
SensorAfterGetState(t) ==
    IF input_sensor = "InputSensor"
    THEN NextBaselineSamples(baseline_samples, t, start_time,
                             RecentCount(keystroke_times, t))
    ELSE baseline_samples

\* StressDetector.get_state()
GetState ==
    /\ input_sensor \in {"InputSensor", "None"}
    /\ Len(SensorAfterGetState(now)) <= MaxSamples
    /\ state' = GetStateResult(now, last_intervention_time, cooldown, InputScore(now))
    /\ baseline_samples' = SensorAfterGetState(now)
    /\ op' = "get_state"
    /\ UNCHANGED <<now, settingVars, otherVars, detectorVars, running, listeners, start_time, keystroke_times,
                   click_times, raceVars, fusionVars>>

\* StressDetector.check_and_intervene()
CheckAndIntervene ==
    /\ input_sensor \in {"InputSensor", "None"}
    /\ Len(tick_log) < MaxTicks
    /\ Len(SensorAfterGetState(now)) <= MaxSamples
    /\ \E lag \in 0..MaxLag :
          /\ now + lag <= MaxTime
          /\ Arbitrate(GetStateResult(now, last_intervention_time, cooldown,
                                      InputScore(now)),
                       now, now + lag)
    /\ baseline_samples' = SensorAfterGetState(now)
    /\ op' = "check_and_intervene"
    /\ UNCHANGED <<settingVars, otherVars, running, listeners, start_time, keystroke_times, click_times,
                   raceVars, fusionVars>>

Init ==
    /\ InitDetector
    /\ cooldown \in 1..MaxCooldown
    /\ stress_threshold \in StressThresholds
    /\ input_sensor \in {"InputSensor", "None"}
    /\ InitSensorIdle
    /\ window_size = WindowSize
    /\ InitOtherIdle
    /\ InitRaceIdle
    /\ InitFusionIdle

Next ==
    \/ Advance
    \/ Start
    \/ OnKeyPress
    \/ OnMouseClick
    \/ GetState
    \/ CheckAndIntervene

Spec == Init /\ [][Next]_vars

----------------------------------------------------------------------------
(* The fusion as a function of three sub-scores: get_state's arithmetic     *)
(* applied to sub-scores drawn from their whole range.                      *)

InputScores == 0..100

AuxiliaryScores == {0, 1, 2, 50, 99, 100}

SubScores == [input_score : InputScores, breathing_score : AuxiliaryScores,
              posture_score : AuxiliaryScores]

Fuse(in) == FusedState(in.input_score, in.breathing_score, in.posture_score)

\* the fusion applied to the current sub-scores
FusionEvaluate ==
    /\ fusion_out' = [result |-> Fuse(fusion_in), before |-> Fuse(fusion_in),
                      raised |-> "none"]
    /\ op' = "fusion"
    /\ UNCHANGED <<now, settingVars, otherVars, detectorVars, state, sensorVars, raceVars, fusion_in>>

\* one sub-score rises, the other two stay; the fusion is applied before and after
FusionRaise ==
    /\ \E f \in {"input_score", "breathing_score", "posture_score"} :
          \E v \in (IF f = "input_score" THEN InputScores ELSE AuxiliaryScores) :
              /\ v > fusion_in[f]
              /\ fusion_in' = [fusion_in EXCEPT ![f] = v]
              /\ fusion_out' = [result |-> Fuse([fusion_in EXCEPT ![f] = v]),
                                before |-> Fuse(fusion_in), raised |-> f]
    /\ op' = "fusion"
    /\ UNCHANGED <<now, settingVars, otherVars, detectorVars, state, sensorVars, raceVars>>

InitFusion ==
    /\ InitDetector
    /\ cooldown = DefaultCooldown
    /\ stress_threshold = DefaultStressThreshold
    /\ input_sensor = "None"
    /\ InitSensorIdle
    /\ window_size = WindowSize
    /\ InitOtherIdle
    /\ InitRaceIdle
    /\ fusion_in \in SubScores
    /\ fusion_out = <<>>

NextFusion ==
    \/ FusionEvaluate
    \/ FusionRaise

SpecFusion == InitFusion /\ [][NextFusion]_vars

----------------------------------------------------------------------------
(* check_and_intervene called from several threads at once.  StressDetector *)
(* holds no lock, so the callers' statements interleave; each action below  *)
(* is one statement group of the method, run by caller c.                   *)

Callers == {1, 2}

\* the scores the injected sensor reports to the concurrent callers
RaceScores == {0, 120, 170}

InFlight == {c \in Callers : pc[c] # "idle"}

\* state = self.get_state()
RaceGetState(c) ==
    /\ pc[c] = "idle"
    /\ Len(tick_log) + Cardinality(InFlight) < MaxRaceCalls
    /\ \E s \in RaceScores :
          local' = [local EXCEPT ![c] =
                       [state |-> GetStateResult(now, last_intervention_time, cooldown, s),
                        t |-> now, previous_level |-> CALM]]
    /\ pc' = [pc EXCEPT ![c] = "read_previous"]
    /\ op' = "check_and_intervene"
    /\ UNCHANGED <<now, settingVars, otherVars, detectorVars, state, sensorVars, fusionVars>>

\* previous_level = self._current_level
RaceReadPrevious(c) ==
    /\ pc[c] = "read_previous"
    /\ local' = [local EXCEPT ![c].previous_level = current_level]
    /\ pc' = [pc EXCEPT ![c] = "write_level"]
    /\ UNCHANGED <<now, settingVars, otherVars, detectorVars, op, state, sensorVars, fusionVars>>

\* self._current_level = state.level
RaceWriteLevel(c) ==
    /\ pc[c] = "write_level"
    /\ current_level' = local[c].state.level
    /\ pc' = [pc EXCEPT ![c] = "calm_restored"]
    /\ UNCHANGED <<now, settingVars, otherVars, last_intervention_time, stress_log, calm_count,
                   tick_log, tick, ret, op, state, sensorVars, local, fusionVars>>

\* the calm-restored callback
RaceCalmRestored(c) ==
    /\ pc[c] = "calm_restored"
    /\ calm_count' = IF CalmRestored(local[c].previous_level, local[c].state.level)
                     THEN calm_count + 1 ELSE calm_count
    /\ pc' = [pc EXCEPT ![c] = "intervene"]
    /\ UNCHANGED <<now, settingVars, otherVars, last_intervention_time, current_level, stress_log,
                   tick_log, tick, ret, op, state, sensorVars, local, fusionVars>>

\* the intervention branch and the return
RaceIntervene(c) ==
    /\ pc[c] = "intervene"
    /\ LET st    == local[c].state
           fires == InterventionNeeded(st)
       IN  /\ last_intervention_time' =
                  NextInterventionTime(st, last_intervention_time, now)
           /\ stress_log' =
                  IF fires
                  THEN Append(stress_log,
                              [level |-> st.level, score |-> st.score,
                               tick |-> Len(tick_log) + 1, t |-> local[c].t, at |-> now])
                  ELSE stress_log
           /\ tick_log' = Append(tick_log,
                                 [level |-> st.level,
                                  calm_restored |->
                                      CalmRestored(local[c].previous_level, st.level)])
           /\ tick' = [t |-> local[c].t, last_before |-> st.last_intervention,
                       calls_before |-> Len(stress_log)]
           /\ ret' = fires
           /\ state' = st
    /\ pc' = [pc EXCEPT ![c] = "idle"]
    /\ UNCHANGED <<now, settingVars, otherVars, current_level, calm_count, op, sensorVars, local,
                   fusionVars>>

InitRace ==
    /\ InitDetector
    /\ cooldown \in 1..MaxCooldown
    /\ stress_threshold = DefaultStressThreshold
    /\ input_sensor = "Injected"
    /\ InitSensorIdle
    /\ window_size = WindowSize
    /\ InitOtherIdle
    /\ pc = [c \in Callers |-> "idle"]
    /\ local = [c \in Callers |-> [state |-> DetectorState, t |-> 0, previous_level |-> CALM]]
    /\ InitFusionIdle

NextRace ==
    \/ Advance
    \/ \E c \in Callers : RaceGetState(c)
    \/ \E c \in Callers : RaceReadPrevious(c)
    \/ \E c \in Callers : RaceWriteLevel(c)
    \/ \E c \in Callers : RaceCalmRestored(c)
    \/ \E c \in Callers : RaceIntervene(c)

SpecRace == InitRace /\ [][NextRace]_vars

----------------------------------------------------------------------------
(* The stress score as a function of the window's keystroke count and the   *)
(* threshold: get_state's arithmetic applied to counts up to the buffer's   *)
(* capacity.  The thresholds divide 100 * count, so the score is a whole    *)
(* number of points.                                                        *)

ScoreThresholds == {1, 2, 4, 5, 10}

ScoreCounts == 0..MaxCount \cup {KeystrokeMaxlen}

\* the score computed for the current count
ScoreEvaluate ==
    /\ score_out' = [result |-> StressScore(score_in, stress_threshold),
                     before |-> StressScore(score_in, stress_threshold),
                     raised |-> FALSE]
    /\ op' = "score"
    /\ UNCHANGED <<now, settingVars, detectorVars, state, sensorVars, raceVars,
                   fusionVars, sensorCallVars, threadVars, intentVars, score_in, appVars, extVars>>

\* the count rises; the score is computed before and after
ScoreRaise ==
    /\ \E c \in ScoreCounts :
          /\ c > score_in
          /\ score_in' = c
          /\ score_out' = [result |-> StressScore(c, stress_threshold),
                           before |-> StressScore(score_in, stress_threshold),
                           raised |-> TRUE]
    /\ op' = "score"
    /\ UNCHANGED <<now, settingVars, detectorVars, state, sensorVars, raceVars,
                   fusionVars, sensorCallVars, threadVars, intentVars, appVars, extVars>>

InitScore ==
    /\ InitDetector
    /\ cooldown = DefaultCooldown
    /\ stress_threshold \in ScoreThresholds
    /\ input_sensor = "InputSensor"
    /\ window_size = WindowSize
    /\ running = FALSE
    /\ listeners = {}
    /\ start_time = 0
    /\ keystroke_times = <<>>
    /\ click_times = <<>>
    /\ baseline_samples = <<>>
    /\ InitRaceIdle
    /\ InitFusionIdle
    /\ InitSensorCallIdle
    /\ InitThreadIdle
    /\ InitIntentIdle
    /\ InitAppIdle
    /\ InitExtIdle
    /\ score_in \in ScoreCounts
    /\ score_out = <<>>

NextScore ==
    \/ ScoreEvaluate
    \/ ScoreRaise

SpecScore == InitScore /\ [][NextScore]_vars

----------------------------------------------------------------------------
(* One InputSensor under its threads: the keyboard listener and the mouse   *)
(* listener run the callbacks, a polling thread runs get_state.  Each       *)
(* action is one step of a thread; `with self._lock` is an acquire step, a  *)
(* body and a release step.  The buffers' capacities are scaled down so     *)
(* that full buffers occur.                                                 *)

Threads == Listeners \cup {"poller"}

\* the events a listener thread delivers
EventKinds(th) == IF th = "keyboard" THEN {"key"} ELSE {"click", "move"}

\* deque(maxlen=1000), deque(maxlen=500), deque(maxlen=100), scaled
Capacity(kind) ==
    CASE kind = "key" -> ScaledKeystrokeMaxlen
      [] kind = "click" -> ScaledClickMaxlen
      [] kind = "move" -> ScaledMouseMaxlen

\* the mouse positions (x, y) of the model
Positions == {<<0, 0>>, <<3, 4>>}

\* a listener thread outside its callback
IdleListener == [kind |-> "none", x |-> 0, y |-> 0, full |-> FALSE]

\* the polling thread outside get_state
IdlePoller ==
    [t |-> 0, is_calibrating |-> FALSE, keys |-> <<>>, clicks |-> <<>>,
     positions |-> <<>>, recent_keystrokes |-> 0, recent_clicks |-> 0,
     mouse_distance |-> 0]

\* the buffer an event of the given kind goes to
Buffer(kind) ==
    CASE kind = "key" -> keystroke_times
      [] kind = "click" -> click_times
      [] kind = "move" -> mouse_positions

\* the timestamps held by a buffer, in insertion order
Timestamps(kind) ==
    IF kind = "move"
    THEN [n \in 1..Len(mouse_positions) |-> mouse_positions[n].t]
    ELSE Buffer(kind)

CanAcquireAlways(holder) == TRUE

\* threading.Lock: acquire goes through only while no thread holds the lock
CanAcquire(holder) == holder = "free"

\* the thread's position inside `with self._lock`
HoldsLock(th) ==
    IF th \in Listeners
    THEN pc[th] \in {"append", "release"}
    ELSE pc[th] \in {"keys", "clicks", "moves", "finish"}

\* the listener thread enters _on_key_press, _on_mouse_click or _on_mouse_move;
\* a click that is a button release returns at once
CallbackEnter(th) ==
    /\ running
    /\ pc[th] = "idle"
    /\ \E kind \in EventKinds(th), xy \in Positions, pressed \in BOOLEAN :
          /\ kind # "click" => pressed
          /\ kind # "move" => xy = <<0, 0>>
          /\ local' = [local EXCEPT ![th] =
                          IF pressed
                          THEN [kind |-> kind, x |-> xy[1], y |-> xy[2], full |-> FALSE]
                          ELSE IdleListener]
          /\ pc' = [pc EXCEPT ![th] = IF pressed THEN "acquire" ELSE "idle"]
    /\ op' = "thread"
    /\ UNCHANGED <<now, settingVars, detectorVars, state, sensorVars, fusionVars,
                   sensorCallVars, threadVars, scoreVars, intentVars, appVars, extVars>>

\* with self._lock: (entry)
CallbackAcquire(th) ==
    /\ pc[th] = "acquire"
    /\ CanAcquire(lock)
    /\ lock' = th
    /\ pc' = [pc EXCEPT ![th] = "append"]
    /\ op' = "thread"
    /\ UNCHANGED <<now, settingVars, detectorVars, state, sensorVars, fusionVars,
                   sensorCallVars, mouse_positions, scoreVars, intentVars, local, appVars, extVars>>

\* self._keystroke_times.append(time.time()), self._click_times.append(time.time()),
\* self._mouse_positions.append((time.time(), x, y)); the thread notes whether
\* the buffer was full
CallbackAppend(th) ==
    /\ pc[th] = "append"
    /\ LET kind == local[th].kind
       IN  /\ keystroke_times' =
                  IF kind = "key"
                  THEN DequeAppend(keystroke_times, now, Capacity(kind))
                  ELSE keystroke_times
           /\ click_times' =
                  IF kind = "click"
                  THEN DequeAppend(click_times, now, Capacity(kind))
                  ELSE click_times
           /\ mouse_positions' =
                  IF kind = "move"
                  THEN DequeAppend(mouse_positions,
                                   [t |-> now, x |-> local[th].x, y |-> local[th].y],
                                   Capacity(kind))
                  ELSE mouse_positions
    /\ local' = [local EXCEPT ![th].full =
                    Len(Buffer(local[th].kind)) = Capacity(local[th].kind)]
    /\ pc' = [pc EXCEPT ![th] = "release"]
    /\ op' = "thread"
    /\ UNCHANGED <<now, settingVars, detectorVars, state, running, listeners, start_time,
                   baseline_samples, fusionVars, sensorCallVars, lock, scoreVars,
                   intentVars, appVars, extVars>>

\* with self._lock: (exit)
CallbackRelease(th) ==
    /\ pc[th] = "release"
    /\ lock' = "free"
    /\ pc' = [pc EXCEPT ![th] = "idle"]
    /\ local' = [local EXCEPT ![th] = IdleListener]
    /\ op' = "thread"
    /\ UNCHANGED <<now, settingVars, detectorVars, state, sensorVars, fusionVars,
                   sensorCallVars, mouse_positions, scoreVars, intentVars, appVars, extVars>>

\* get_state: now, window_start and is_calibrating, computed before the lock
PollBegin ==
    /\ pc["poller"] = "idle"
    /\ IsCalibrating(now, start_time) => Len(baseline_samples) < MaxSamples
    /\ local' = [local EXCEPT !["poller"] =
                    [@ EXCEPT !.t = now,
                              !.is_calibrating = IsCalibrating(now, start_time)]]
    /\ pc' = [pc EXCEPT !["poller"] = "acquire"]
    /\ sensor_state' = SensorState
    /\ op' = "thread"
    /\ UNCHANGED <<now, settingVars, detectorVars, state, sensorVars, fusionVars,
                   sensor_ret, sensor_calls, threadVars, scoreVars, intentVars, appVars, extVars>>

\* get_state: with self._lock: (entry); the buffers as they are at this
\* point are noted for comparison
PollAcquire ==
    /\ pc["poller"] = "acquire"
    /\ CanAcquire(lock)
    /\ lock' = "poller"
    /\ local' = [local EXCEPT !["poller"] =
                    [@ EXCEPT !.keys = keystroke_times, !.clicks = click_times,
                              !.positions = mouse_positions]]
    /\ pc' = [pc EXCEPT !["poller"] = "keys"]
    /\ op' = "thread"
    /\ UNCHANGED <<now, settingVars, detectorVars, state, sensorVars, fusionVars,
                   sensorCallVars, mouse_positions, scoreVars, intentVars, appVars, extVars>>

\* get_state: recent_keystrokes = sum(1 for t in self._keystroke_times if ...)
PollKeys ==
    /\ pc["poller"] = "keys"
    /\ local' = [local EXCEPT !["poller"].recent_keystrokes =
                    RecentCount(keystroke_times, local["poller"].t)]
    /\ pc' = [pc EXCEPT !["poller"] = "clicks"]
    /\ op' = "thread"
    /\ UNCHANGED <<now, settingVars, detectorVars, state, sensorVars, fusionVars,
                   sensorCallVars, threadVars, scoreVars, intentVars, appVars, extVars>>

\* get_state: recent_clicks = sum(1 for t in self._click_times if ...)
PollClicks ==
    /\ pc["poller"] = "clicks"
    /\ local' = [local EXCEPT !["poller"].recent_clicks =
                    RecentCount(click_times, local["poller"].t)]
    /\ pc' = [pc EXCEPT !["poller"] = "moves"]
    /\ op' = "thread"
    /\ UNCHANGED <<now, settingVars, detectorVars, state, sensorVars, fusionVars,
                   sensorCallVars, threadVars, scoreVars, intentVars, appVars, extVars>>

\* get_state: recent_positions and mouse_distance
PollMoves ==
    /\ pc["poller"] = "moves"
    /\ local' = [local EXCEPT !["poller"].mouse_distance =
                    PathLength(RecentPositions(mouse_positions, local["poller"].t))]
    /\ pc' = [pc EXCEPT !["poller"] = "finish"]
    /\ op' = "thread"
    /\ UNCHANGED <<now, settingVars, detectorVars, state, sensorVars, fusionVars,
                   sensorCallVars, threadVars, scoreVars, intentVars, appVars, extVars>>

\* get_state: the baseline update, the baseline, the score, the lock's exit
\* and the SensorState returned
PollFinish ==
    /\ pc["poller"] = "finish"
    /\ LET my == local["poller"]
           samples == IF my.is_calibrating /\ my.recent_keystrokes > 0
                      THEN Append(baseline_samples, my.recent_keystrokes)
                      ELSE baseline_samples
       IN  /\ baseline_samples' = samples
           /\ sensor_state' =
                  [keystrokes_per_second |-> Rate(my.recent_keystrokes),
                   mouse_clicks_per_second |-> Rate(my.recent_clicks),
                   mouse_distance_per_second |-> Rate(my.mouse_distance),
                   current_stress_score |->
                       StressScore(my.recent_keystrokes, stress_threshold),
                   baseline_typing_speed |-> Baseline(samples),
                   is_calibrating |-> my.is_calibrating]
    /\ lock' = "free"
    /\ pc' = [pc EXCEPT !["poller"] = "idle"]
    /\ local' = [local EXCEPT !["poller"] = IdlePoller]
    /\ op' = "sensor_get_state"
    /\ UNCHANGED <<now, settingVars, detectorVars, state, running, listeners, start_time,
                   keystroke_times, click_times, fusionVars, sensor_ret, sensor_calls,
                   mouse_positions, scoreVars, intentVars, appVars, extVars>>

InitLock ==
    /\ InitDetector
    /\ cooldown = DefaultCooldown
    /\ stress_threshold = ScaledKeystrokeMaxlen
    /\ input_sensor = "InputSensor"
    /\ window_size = 1
    /\ running = FALSE
    /\ listeners = {}
    /\ start_time = 0
    /\ keystroke_times = <<>>
    /\ click_times = <<>>
    /\ baseline_samples = <<>>
    /\ pc = [th \in Threads |-> "idle"]
    /\ local = [th \in Threads |-> IF th \in Listeners THEN IdleListener ELSE IdlePoller]
    /\ InitFusionIdle
    /\ InitOtherIdle

NextLock ==
    \/ Advance
    \/ Start
    \/ \E th \in Listeners : CallbackEnter(th)
    \/ \E th \in Listeners : CallbackAcquire(th)
    \/ \E th \in Listeners : CallbackAppend(th)
    \/ \E th \in Listeners : CallbackRelease(th)
    \/ PollBegin
    \/ PollAcquire
    \/ PollKeys
    \/ PollClicks
    \/ PollMoves
    \/ PollFinish

SpecLock == InitLock /\ [][NextLock]_vars

----------------------------------------------------------------------------
(* IntentChecker (ai/intent.py): the interval gate, the screen capture, the *)
(* judgment of the vision model and the mismatch tracking.  The intervals   *)
(* and thresholds are scaled down to a few seconds.                         *)

\* the intents handed to set_intent, as typed
RawIntents == {"debugging", " writing ", " "}

\* str.strip() on the intents of the model
Strip(raw) ==
    CASE raw = " writing " -> "writing"
      [] raw = " " -> ""
      [] OTHER -> raw

\* what ScreenCapture.get_for_ai() hands back: JPEG bytes, or None when the
\* capture failed
ImageBytes == {"jpeg", "None"}

ImagePresentAlways(image_bytes) == TRUE

\* `if not image_bytes: return ...` is not taken
ImagePresent(image_bytes) == image_bytes # "None"

JudgmentsFailClosed ==
    {[matches |-> TRUE, explanation |-> "on task"],
     [matches |-> FALSE, explanation |-> "social media"],
     [matches |-> FALSE, explanation |-> "Could not analyze"]}

\* what OllamaClient.check_intent_match returns: (True, ...) for an answer
\* starting with YES, (False, ...) for any other answer, and
\* (True, "Could not analyze") when the model gave no answer
Judgments ==
    {[matches |-> TRUE, explanation |-> "on task"],
     [matches |-> FALSE, explanation |-> "social media"],
     [matches |-> TRUE, explanation |-> "Could not analyze"]}

GateSkipsNever(t, last, interval) == FALSE

\* if now - self._last_check < self.check_interval:
GateSkips(t, last, interval) == t - last < interval

\* `if self._mismatch_start:` -- None and 0.0 are both false
Truthy(t) == t # NoTime /\ t # 0

\* mismatch_duration as check and get_state compute it at clock reading t
MismatchDuration(t, start) == IF Truthy(start) THEN t - start ELSE 0

\* the interval and the threshold the checkers of the model are built with
CheckIntervals == 1..MaxInterval

MismatchThresholds == {1, 2}

\* IntentChecker.start(): nothing changes unless Ollama is available
IntentStart ==
    /\ \E available \in BOOLEAN :
          intent_running' = IF available THEN TRUE ELSE intent_running
    /\ op' = "intent_start"
    /\ UNCHANGED <<now, settingVars, detectorVars, state, sensorVars, raceVars,
                   fusionVars, sensorCallVars, threadVars, scoreVars,
                   intentSettingVars, current_intent, last_check, mismatch_start,
                   last_explanation, intent_state, check_log, judgment_log,
                   mismatch_log, mismatch_run, appVars, extVars>>

\* IntentChecker.stop()
IntentStop ==
    /\ intent_running' = FALSE
    /\ op' = "intent_stop"
    /\ UNCHANGED <<now, settingVars, detectorVars, state, sensorVars, raceVars,
                   fusionVars, sensorCallVars, threadVars, scoreVars,
                   intentSettingVars, current_intent, last_check, mismatch_start,
                   last_explanation, intent_state, check_log, judgment_log,
                   mismatch_log, mismatch_run, appVars, extVars>>

SetIntentKeepingMismatch ==
    /\ \E raw \in RawIntents : current_intent' = Strip(raw)
    /\ mismatch_run' = NoTime
    /\ op' = "set_intent"
    /\ UNCHANGED <<now, settingVars, detectorVars, state, sensorVars, raceVars,
                   fusionVars, sensorCallVars, threadVars, scoreVars,
                   intentSettingVars, intent_running, last_check, intent_state,
                   check_log, judgment_log, mismatch_log, mismatch_start,
                   last_explanation, appVars, extVars>>

\* IntentChecker.set_intent(intent)
SetIntent ==
    /\ \E raw \in RawIntents : current_intent' = Strip(raw)
    /\ mismatch_start' = NoTime
    /\ last_explanation' = ""
    /\ mismatch_run' = NoTime
    /\ op' = "set_intent"
    /\ UNCHANGED <<now, settingVars, detectorVars, state, sensorVars, raceVars,
                   fusionVars, sensorCallVars, threadVars, scoreVars,
                   intentSettingVars, intent_running, last_check, intent_state,
                   check_log, judgment_log, mismatch_log, appVars, extVars>>

\* IntentChecker.clear_intent()
ClearIntent ==
    /\ current_intent' = ""
    /\ mismatch_start' = NoTime
    /\ mismatch_run' = NoTime
    /\ op' = "clear_intent"
    /\ UNCHANGED <<now, settingVars, detectorVars, state, sensorVars, raceVars,
                   fusionVars, sensorCallVars, threadVars, scoreVars,
                   intentSettingVars, intent_running, last_check, last_explanation,
                   intent_state, check_log, judgment_log, mismatch_log, appVars, extVars>>

NextMismatchStartKeptOnMatch(start, matches, t) ==
    IF start = NoTime /\ ~matches THEN t ELSE start

\* the mismatch start after a judgment at clock reading t
NextMismatchStart(start, matches, t) ==
    IF matches THEN NoTime ELSE IF start = NoTime THEN t ELSE start

MismatchFiresWithoutThreshold(start, matches, t) ==
    ~matches /\ start # NoTime

MismatchFiresOnce(start, matches, t) ==
    /\ ~matches
    /\ start # NoTime
    /\ t - start >= mismatch_threshold
    /\ \A n \in 1..Len(mismatch_log) : mismatch_log[n].t < start

\* whether the judgment at clock reading t invokes on_mismatch_detected
MismatchFires(start, matches, t) ==
    /\ ~matches
    /\ start # NoTime
    /\ t - start >= mismatch_threshold

\* IntentChecker.check(), with an on_mismatch_detected callback installed
IntentCheck ==
    /\ IF ~intent_running \/ current_intent = ""
       THEN /\ intent_state' = IntentState
            /\ check_log' = [gate |-> "disabled", captures |-> 0, image |-> "None",
                             judgments |-> 0, callbacks |-> 0]
            /\ UNCHANGED <<last_check, mismatch_start, last_explanation,
                           judgment_log, mismatch_log, mismatch_run>>
       ELSE IF GateSkips(now, last_check, check_interval)
       THEN /\ intent_state' =
                   [current_intent |-> current_intent,
                    last_check_time |-> last_check,
                    last_match |-> mismatch_start = NoTime,
                    last_explanation |-> last_explanation,
                    mismatch_duration |-> MismatchDuration(now, mismatch_start),
                    is_enabled |-> TRUE]
            /\ check_log' = [gate |-> "skipped", captures |-> 0, image |-> "None",
                             judgments |-> 0, callbacks |-> 0]
            /\ UNCHANGED <<last_check, mismatch_start, last_explanation,
                           judgment_log, mismatch_log, mismatch_run>>
       ELSE \E image_bytes \in ImageBytes, judgment \in Judgments :
              /\ last_check' = now
              /\ IF ~ImagePresent(image_bytes)
                 THEN /\ intent_state' =
                             [IntentState EXCEPT !.current_intent = current_intent,
                                                 !.is_enabled = TRUE]
                      /\ check_log' = [gate |-> "performed", captures |-> 1,
                                       image |-> image_bytes, judgments |-> 0,
                                       callbacks |-> 0]
                      /\ UNCHANGED <<mismatch_start, last_explanation,
                                     judgment_log, mismatch_log, mismatch_run>>
                 ELSE LET fires == MismatchFires(mismatch_start, judgment.matches, now)
                          start == NextMismatchStart(mismatch_start,
                                                     judgment.matches, now)
                      IN  /\ judgment_log' = Append(judgment_log, now)
                          /\ last_explanation' = judgment.explanation
                          /\ mismatch_start' = start
                          /\ mismatch_run' =
                                 IF judgment.matches
                                 THEN NoTime
                                 ELSE IF mismatch_run = NoTime THEN now ELSE mismatch_run
                          /\ mismatch_log' =
                                 IF fires
                                 THEN Append(mismatch_log,
                                             [t |-> now, intent |-> current_intent,
                                              explanation |-> judgment.explanation])
                                 ELSE mismatch_log
                          /\ intent_state' =
                                 [current_intent |-> current_intent,
                                  last_check_time |-> now,
                                  last_match |-> judgment.matches,
                                  last_explanation |-> judgment.explanation,
                                  mismatch_duration |-> MismatchDuration(now, start),
                                  is_enabled |-> TRUE]
                          /\ check_log' = [gate |-> "performed", captures |-> 1,
                                           image |-> image_bytes, judgments |-> 1,
                                           callbacks |-> IF fires THEN 1 ELSE 0]
    /\ op' = "check"
    /\ UNCHANGED <<now, settingVars, detectorVars, state, sensorVars, raceVars,
                   fusionVars, sensorCallVars, threadVars, scoreVars,
                   intentSettingVars, intent_running, current_intent, appVars, extVars>>

\* IntentChecker.get_state()
IntentGetState ==
    /\ intent_state' =
           IF current_intent = ""
           THEN IntentState
           ELSE [current_intent |-> current_intent,
                 last_check_time |-> last_check,
                 last_match |-> mismatch_start = NoTime,
                 last_explanation |-> last_explanation,
                 mismatch_duration |-> MismatchDuration(now, mismatch_start),
                 is_enabled |-> TRUE]
    /\ op' = "intent_get_state"
    /\ UNCHANGED <<now, settingVars, detectorVars, state, sensorVars, raceVars,
                   fusionVars, sensorCallVars, threadVars, scoreVars,
                   intentSettingVars, intent_running, current_intent, last_check,
                   mismatch_start, last_explanation, check_log, judgment_log,
                   mismatch_log, mismatch_run, appVars, extVars>>

InitIntent ==
    /\ InitDetector
    /\ cooldown = DefaultCooldown
    /\ stress_threshold = DefaultStressThreshold
    /\ input_sensor = "None"
    /\ window_size = WindowSize
    /\ running = FALSE
    /\ listeners = {}
    /\ start_time = 0
    /\ keystroke_times = <<>>
    /\ click_times = <<>>
    /\ baseline_samples = <<>>
    /\ InitRaceIdle
    /\ InitFusionIdle
    /\ InitSensorCallIdle
    /\ InitThreadIdle
    /\ InitScoreIdle
    /\ InitAppIdle
    /\ InitExtIdle
    /\ intent_running = FALSE
    /\ current_intent = ""
    /\ check_interval \in CheckIntervals
    /\ mismatch_threshold \in MismatchThresholds
    /\ last_check = 0
    /\ mismatch_start = NoTime
    /\ last_explanation = ""
    /\ intent_state = IntentState
    /\ check_log = [gate |-> "none", captures |-> 0, image |-> "None",
                    judgments |-> 0, callbacks |-> 0]
    /\ judgment_log = <<>>
    /\ mismatch_log = <<>>
    /\ mismatch_run = NoTime

NextIntent ==
    \/ Advance
    \/ IntentStart
    \/ IntentStop
    \/ SetIntent
    \/ ClearIntent
    \/ IntentCheck
    \/ IntentGetState

SpecIntent == InitIntent /\ [][NextIntent]_vars

----------------------------------------------------------------------------
(* Starting and stopping the components: an InputSensor and an              *)
(* IntentChecker side by side, start() and stop() of each called in any     *)
(* order, with input events arriving while the listeners are attached       *)

InitLifecycle == InitSensor

NextLifecycle ==
    \/ Advance
    \/ Start
    \/ Stop
    \/ OnKeyPress
    \/ OnMouseClick
    \/ IntentStart
    \/ IntentStop

SpecLifecycle == InitLifecycle /\ [][NextLifecycle]_vars

----------------------------------------------------------------------------
(* Construction with any settings: an InputSensor built with a window_size  *)
(* that may be zero or negative, or a StressDetector whose settings carry   *)
(* a cooldown that may be zero or negative; neither __post_init__ looks at  *)
(* the value, so every one of them is an initial state                      *)

ConfigWindowSizes == {-1, 0, 1}

ConfigCooldowns == {-1, 0, 1}

\* InputSensor(window_size=w, stress_threshold=s)
InitConfigSensor ==
    /\ InitDetector
    /\ cooldown = DefaultCooldown
    /\ stress_threshold \in StressThresholds
    /\ input_sensor = "InputSensor"
    /\ window_size \in ConfigWindowSizes
    /\ InitSensorIdle
    /\ InitRaceIdle
    /\ InitFusionIdle
    /\ InitOtherIdle

\* StressDetector(settings) with settings.intervention.cooldown = c
InitConfigDetector ==
    /\ InitDetector
    /\ cooldown \in ConfigCooldowns
    /\ stress_threshold = DefaultStressThreshold
    /\ input_sensor = "Injected"
    /\ window_size = WindowSize
    /\ InitSensorIdle
    /\ InitRaceIdle
    /\ InitFusionIdle
    /\ InitOtherIdle

InitConfig == InitConfigSensor \/ InitConfigDetector

\* InputSensor.get_state() for any window_size: recent_keystrokes /
\* self.window_size raises ZeroDivisionError when window_size is 0, before
\* anything is written
GetStateOrRaise ==
    IF window_size = 0
    THEN /\ input_sensor = "InputSensor"
         /\ error' = "ZeroDivisionError"
         /\ op' = "sensor_get_state"
         /\ UNCHANGED <<now, settingVars, detectorVars, state, sensorVars, raceVars,
                        fusionVars, sensorCallVars, threadVars, scoreVars,
                        intentVars, app_running, monitor, paused, extVars>>
    ELSE SensorGetState

NextConfig ==
    \/ Advance
    \/ Start
    \/ Stop
    \/ OnKeyPress
    \/ OnMouseClick
    \/ GetStateOrRaise
    \/ InjectedCheckAndIntervene

SpecConfig == InitConfig /\ [][NextConfig]_vars

----------------------------------------------------------------------------
(* OpenSatiApp: _start, the monitor thread running _monitor_loop, the tray  *)
(* pausing it, and _quit. The loop calls the detector's get_state and       *)
(* check_and_intervene with no try/except around them, so an exception a    *)
(* call raises leaves the loop and ends the thread. _intent_checker is None *)
(* in every app that was constructed (with the screen sensor off it is      *)
(* never built, with it on the constructor call passes on_log, which the    *)
(* IntentChecker does not accept), so the loop's last branch is skipped.    *)
(* The periodic logging inside the loop writes no state and is left out.    *)

\* settings.detection.stress_threshold as Settings.load accepts it: any number
LoopStressThresholds == StressThresholds \cup {0}

InitLoop ==
    /\ InitDetector
    /\ cooldown \in 1..MaxCooldown
    /\ stress_threshold \in LoopStressThresholds
    /\ input_sensor \in {"InputSensor", "None"}
    /\ InitSensorIdle
    /\ window_size = WindowSize
    /\ InitOtherIdle
    /\ InitRaceIdle
    /\ InitFusionIdle

\* OpenSatiApp._start(): _running, detector.start(), the monitor thread
AppStart ==
    /\ ~app_running
    /\ monitor = "none"
    /\ app_running' = TRUE
    /\ IF input_sensor = "InputSensor"
       THEN /\ running' = TRUE
            /\ listeners' = Listeners
            /\ start_time' = now
       ELSE UNCHANGED <<running, listeners, start_time>>
    /\ monitor' = "loop"
    /\ op' = "app_start"
    /\ UNCHANGED <<extVars, now, settingVars, detectorVars, state, keystroke_times,
                   click_times, baseline_samples, raceVars, fusionVars,
                   sensorCallVars, threadVars, scoreVars, intentVars, paused,
                   error>>

\* OpenSatiApp._quit(): _running = False, detector.stop()
AppQuit ==
    /\ app_running
    /\ app_running' = FALSE
    /\ running' = FALSE
    /\ listeners' = {}
    /\ op' = "app_quit"
    /\ UNCHANGED <<extVars, now, settingVars, detectorVars, state, start_time,
                   keystroke_times, click_times, baseline_samples, raceVars,
                   fusionVars, sensorCallVars, threadVars, scoreVars, intentVars,
                   monitor, paused, error>>

\* the tray's pause item
TogglePause ==
    /\ app_running
    /\ paused' = ~paused
    /\ op' = "toggle_pause"
    /\ UNCHANGED <<extVars, now, settingVars, detectorVars, state, sensorVars, raceVars,
                   fusionVars, sensorCallVars, threadVars, scoreVars, intentVars,
                   app_running, monitor, error>>

\* while self._running: time.sleep(check_interval)
MonitorSleep ==
    /\ monitor = "loop"
    /\ app_running
    /\ now < MaxTime
    /\ now' = now + 1
    /\ monitor' = "woke"
    /\ op' = "monitor"
    /\ UNCHANGED <<extVars, settingVars, detectorVars, state, sensorVars, raceVars,
                   fusionVars, sensorCallVars, threadVars, scoreVars, intentVars,
                   app_running, paused, error>>

\* while self._running: the test fails and the thread returns
MonitorExit ==
    /\ monitor = "loop"
    /\ ~app_running
    /\ monitor' = "exited"
    /\ op' = "monitor"
    /\ UNCHANGED <<extVars, now, settingVars, detectorVars, state, sensorVars, raceVars,
                   fusionVars, sensorCallVars, threadVars, scoreVars, intentVars,
                   app_running, paused, error>>

\* if self._tray.is_paused: continue
MonitorPaused ==
    /\ monitor = "woke"
    /\ monitor' = IF paused THEN "loop" ELSE "get_state"
    /\ op' = "monitor"
    /\ UNCHANGED <<extVars, now, settingVars, detectorVars, state, sensorVars, raceVars,
                   fusionVars, sensorCallVars, threadVars, scoreVars, intentVars,
                   app_running, paused, error>>

\* state = self._detector.get_state(): with stress_threshold 0 the sensor's
\* recent_keystrokes / self.stress_threshold raises ZeroDivisionError, after
\* the baseline sample was appended; nothing catches it
MonitorGetState ==
    /\ monitor = "get_state"
    /\ Len(SensorAfterGetState(now)) <= MaxSamples
    /\ baseline_samples' = SensorAfterGetState(now)
    /\ IF input_sensor = "InputSensor" /\ stress_threshold = 0
       THEN /\ error' = "ZeroDivisionError"
            /\ monitor' = "terminated"
            /\ UNCHANGED state
       ELSE /\ state' = GetStateResult(now, last_intervention_time, cooldown,
                                       InputScore(now))
            /\ monitor' = "check_and_intervene"
            /\ UNCHANGED error
    /\ op' = "monitor"
    /\ UNCHANGED <<extVars, now, settingVars, detectorVars, running, listeners, start_time,
                   keystroke_times, click_times, raceVars, fusionVars,
                   sensorCallVars, threadVars, scoreVars, intentVars,
                   app_running, paused>>

\* self._detector.check_and_intervene(): on_calm_restored and
\* on_stress_detected are the app's handlers, which drive the tray and the
\* windows and may raise; the detector has written its fields by then
MonitorCheckAndIntervene ==
    /\ monitor = "check_and_intervene"
    /\ Len(tick_log) < MaxTicks
    /\ Len(SensorAfterGetState(now)) <= MaxSamples
    /\ baseline_samples' = SensorAfterGetState(now)
    /\ LET st == GetStateResult(now, last_intervention_time, cooldown,
                                InputScore(now))
       IN  /\ Arbitrate(st, now, now)
           /\ \E raises \in BOOLEAN :
                 /\ raises => (CalmRestored(current_level, st.level)
                                 \/ InterventionNeeded(st))
                 /\ error' = IF raises THEN "callback" ELSE error
                 /\ monitor' = IF raises THEN "terminated" ELSE "loop"
    /\ op' = "monitor"
    /\ UNCHANGED <<extVars, settingVars, running, listeners, start_time, keystroke_times,
                   click_times, raceVars, fusionVars, sensorCallVars, threadVars,
                   scoreVars, intentVars, app_running, paused>>

NextLoop ==
    \/ AppStart
    \/ AppQuit
    \/ TogglePause
    \/ OnKeyPress
    \/ MonitorSleep
    \/ MonitorExit
    \/ MonitorPaused
    \/ MonitorGetState
    \/ MonitorCheckAndIntervene

SpecLoop == InitLoop /\ [][NextLoop]_vars

----------------------------------------------------------------------------
(* The auxiliary sensors: PostureDetector (core/vision.py) and AudioSensor  *)
(* (core/audio.py), each on its own. Angles are whole degrees, breathing    *)
(* rates whole breaths per minute, confidence is kept in tenths.            *)

NeckAngleThreshold == 15

MinRate == 8

MaxRate == 20

\* PostureState()
PostureState ==
    [neck_angle |-> 0, is_good_posture |-> TRUE, face_detected |-> FALSE,
     is_enabled |-> FALSE]

\* BreathingState()
BreathingState ==
    [breaths_per_minute |-> 0, is_stressed |-> FALSE, is_too_slow |-> FALSE,
     confidence |-> 0, is_enabled |-> FALSE]

NeckAngles == {10, 15, 20}

\* what _detect_posture returns: (neck_angle, True) for a face found in the
\* frame, (0.0, False) without a capture, without a frame or without a face
Detections ==
    {[angle |-> a, detected |-> TRUE] : a \in NeckAngles}
        \cup {[angle |-> 0, detected |-> FALSE]}

\* what _estimate_breathing_rate returns (breaths_per_minute, confidence),
\* or the exception it raises
Estimates ==
    {[rate |-> 0, confidence |-> 0, raised |-> FALSE],
     [rate |-> 6, confidence |-> 10, raised |-> FALSE],
     [rate |-> 12, confidence |-> 10, raised |-> FALSE],
     [rate |-> 25, confidence |-> 6, raised |-> FALSE],
     [rate |-> 0, confidence |-> 0, raised |-> TRUE]}

PostureCheckIntervals == 1..MaxInterval

\* now - self._last_check < self.check_interval
PostureGateSkips(t, last, interval) == t - last < interval

\* PostureDetector.start(): _running is set only when the webcam opened
PostureStart ==
    /\ \E opened \in BOOLEAN :
          posture' = [posture EXCEPT !.running = IF opened THEN TRUE ELSE @]
    /\ op' = "posture_start"
    /\ UNCHANGED <<now, settingVars, detectorVars, state, sensorVars, raceVars,
                   fusionVars, sensorCallVars, threadVars, scoreVars, intentVars,
                   appVars, posture_state, posture_call, audioVars, fileVars,
                   event, grayVars>>

\* PostureDetector.stop()
PostureStop ==
    /\ posture' = [posture EXCEPT !.running = FALSE]
    /\ op' = "posture_stop"
    /\ UNCHANGED <<now, settingVars, detectorVars, state, sensorVars, raceVars,
                   fusionVars, sensorCallVars, threadVars, scoreVars, intentVars,
                   appVars, posture_state, posture_call, audioVars, fileVars,
                   event, grayVars>>

\* PostureDetector.check_posture(); posture_call.acquired keeps the
\* PostureState the most recent acquisition returned and posture_call.success
\* the angle of the most recent acquisition that found a face
CheckPosture ==
    /\ IF ~posture.running
       THEN /\ posture_state' = PostureState
            /\ posture_call' = [posture_call EXCEPT !.gate = "disabled",
                                                    !.on_bad_posture = 0,
                                                    !.on_posture_corrected = 0]
            /\ UNCHANGED posture
       ELSE IF PostureGateSkips(now, posture.last_check, posture.check_interval)
       THEN /\ posture_state' =
                   [neck_angle |-> posture.last_angle,
                    is_good_posture |-> posture.last_angle < posture.neck_angle_threshold,
                    face_detected |-> TRUE,
                    is_enabled |-> TRUE]
            /\ posture_call' = [posture_call EXCEPT !.gate = "cached",
                                                    !.on_bad_posture = 0,
                                                    !.on_posture_corrected = 0]
            /\ UNCHANGED posture
       ELSE \E d \in Detections :
              LET is_bad == d.angle > posture.neck_angle_threshold
                  result == [neck_angle |-> d.angle,
                             is_good_posture |-> ~is_bad,
                             face_detected |-> d.detected,
                             is_enabled |-> TRUE]
              IN  /\ posture' = [posture EXCEPT !.last_check = now,
                                                !.last_angle = d.angle,
                                                !.was_bad_posture = is_bad]
                  /\ posture_state' = result
                  /\ posture_call' =
                         [gate |-> "acquired",
                          on_bad_posture |->
                              IF is_bad /\ ~posture.was_bad_posture THEN 1 ELSE 0,
                          on_posture_corrected |->
                              IF ~is_bad /\ posture.was_bad_posture THEN 1 ELSE 0,
                          acquired |-> result,
                          before |-> posture_call.success,
                          success |-> IF d.detected THEN <<d.angle>>
                                      ELSE posture_call.success]
    /\ op' = "check_posture"
    /\ UNCHANGED <<now, settingVars, detectorVars, state, sensorVars, raceVars,
                   fusionVars, sensorCallVars, threadVars, scoreVars, intentVars,
                   appVars, audioVars, fileVars, event, grayVars>>

\* AudioSensor.start(): _running is set before the stream is opened, so it
\* stays set when opening fails; without pyaudio nothing is set
AudioStart ==
    /\ \E outcome \in {"started", "open failed", "no pyaudio"} :
          audio' = [audio EXCEPT !.running = IF outcome = "no pyaudio"
                                               THEN @ ELSE TRUE]
    /\ op' = "audio_start"
    /\ UNCHANGED <<now, settingVars, detectorVars, state, sensorVars, raceVars,
                   fusionVars, sensorCallVars, threadVars, scoreVars, intentVars,
                   appVars, postureVars, breathing_state, audio_call, fileVars,
                   event, grayVars>>

\* AudioSensor.stop()
AudioStop ==
    /\ audio' = [audio EXCEPT !.running = FALSE]
    /\ op' = "audio_stop"
    /\ UNCHANGED <<now, settingVars, detectorVars, state, sensorVars, raceVars,
                   fusionVars, sensorCallVars, threadVars, scoreVars, intentVars,
                   appVars, postureVars, breathing_state, audio_call, fileVars,
                   event, grayVars>>

\* AudioSensor.get_state(); audio_call.before is _last_rate as the call found it
AudioGetState ==
    /\ IF ~audio.running
       THEN /\ breathing_state' = BreathingState
            /\ audio_call' = [estimated |-> FALSE, raised |-> FALSE,
                              before |-> audio.last_rate]
            /\ UNCHANGED audio
       ELSE \E e \in Estimates :
              IF e.raised
              THEN /\ breathing_state' = [BreathingState EXCEPT !.is_enabled = TRUE]
                   /\ audio_call' = [estimated |-> TRUE, raised |-> TRUE,
                                     before |-> audio.last_rate]
                   /\ UNCHANGED audio
              ELSE /\ audio' = [audio EXCEPT !.last_rate = e.rate]
                   /\ breathing_state' =
                          [breaths_per_minute |-> e.rate,
                           is_stressed |-> e.rate > audio.max_rate /\ e.confidence > 5,
                           is_too_slow |-> e.rate < audio.min_rate /\ e.confidence > 5,
                           confidence |-> e.confidence,
                           is_enabled |-> TRUE]
                   /\ audio_call' = [estimated |-> TRUE, raised |-> FALSE,
                                     before |-> audio.last_rate]
    /\ op' = "audio_get_state"
    /\ UNCHANGED <<now, settingVars, detectorVars, state, sensorVars, raceVars,
                   fusionVars, sensorCallVars, threadVars, scoreVars, intentVars,
                   appVars, postureVars, fileVars, event, grayVars>>

\* PostureDetector(check_interval=i) and AudioSensor() as constructed
InitAuxiliary ==
    /\ InitDetector
    /\ cooldown = DefaultCooldown
    /\ stress_threshold = DefaultStressThreshold
    /\ input_sensor = "None"
    /\ window_size = WindowSize
    /\ InitSensorIdle
    /\ InitRaceIdle
    /\ InitFusionIdle
    /\ InitSensorCallIdle
    /\ InitThreadIdle
    /\ InitScoreIdle
    /\ InitIntentIdle
    /\ InitAppIdle
    /\ \E i \in PostureCheckIntervals :
          posture = [running |-> FALSE, last_check |-> 0, last_angle |-> 0,
                     was_bad_posture |-> FALSE, check_interval |-> i,
                     neck_angle_threshold |-> NeckAngleThreshold]
    /\ posture_state = PostureState
    /\ posture_call = [gate |-> "none", on_bad_posture |-> 0,
                       on_posture_corrected |-> 0, acquired |-> PostureState,
                       before |-> <<>>, success |-> <<>>]
    /\ audio = [running |-> FALSE, last_rate |-> 0, min_rate |-> MinRate,
                max_rate |-> MaxRate]
    /\ breathing_state = BreathingState
    /\ audio_call = [estimated |-> FALSE, raised |-> FALSE, before |-> 0]
    /\ settings = <<>>
    /\ file = <<>>
    /\ loaded = <<>>
    /\ event = [kind |-> "none"]
    /\ gray = <<>>
    /\ display = <<>>
    /\ fade = <<>>
    /\ restore = <<>>

NextAuxiliary ==
    \/ Advance
    \/ PostureStart
    \/ PostureStop
    \/ CheckPosture
    \/ AudioStart
    \/ AudioStop
    \/ AudioGetState

SpecAuxiliary == InitAuxiliary /\ [][NextAuxiliary]_vars

----------------------------------------------------------------------------
(* The shipped detector in the running application, where the settings      *)
(* window saves new settings: SettingsWindow._save writes the sliders into  *)
(* the Settings object and OpenSatiApp._on_settings_save hands that object  *)
(* to the existing detector. The detector reads settings.intervention       *)
(* .cooldown on every get_state; its InputSensor keeps the stress_threshold *)
(* it was constructed with.                                                 *)

\* OpenSatiApp._on_settings_save(settings): self._detector.settings = settings
OnSettingsSave ==
    /\ \E c \in 1..MaxCooldown : cooldown' = c
    /\ op' = "settings_save"
    /\ UNCHANGED <<now, stress_threshold, input_sensor, window_size, otherVars,
                   detectorVars, state, sensorVars, raceVars, fusionVars>>

NextSettingsSave ==
    \/ Advance
    \/ Start
    \/ OnKeyPress
    \/ GetState
    \/ CheckAndIntervene
    \/ OnSettingsSave

SpecSettingsSave == Init /\ [][NextSettingsSave]_vars

----------------------------------------------------------------------------
(* The InputSensor with the content of the events: the pynput listeners     *)
(* pass the key to _on_key_press and the position, the button and the       *)
(* pressed flag to _on_mouse_click; event records what was passed.          *)

Keys == {"a", "Key.enter"}

Buttons == {"Button.left", "Button.right"}

\* what _on_mouse_click appends for a press: time.time()
ClickEntry(x, y, button, t) == t

KeystrokeEntryOfKey(key, t) == IF key = "a" THEN t ELSE t - 1

\* what _on_key_press appends: time.time()
KeystrokeEntry(key, t) == t

\* InputSensor._on_key_press(key), called by the keyboard listener
ListenerKeyPress ==
    /\ input_sensor = "InputSensor"
    /\ running
    /\ Len(keystroke_times) < MaxKeys
    /\ \E key \in Keys :
          /\ keystroke_times' = DequeAppend(keystroke_times,
                                            KeystrokeEntry(key, now), KeystrokeMaxlen)
          /\ event' = [kind |-> "key", key |-> key]
    /\ op' = "key_press"
    /\ UNCHANGED <<now, settingVars, detectorVars, state, running, listeners,
                   start_time, click_times, baseline_samples, raceVars, fusionVars,
                   sensorCallVars, threadVars, scoreVars, intentVars, appVars,
                   postureVars, audioVars, fileVars, grayVars>>

\* InputSensor._on_mouse_click(x, y, button, pressed), called by the mouse listener
ListenerMouseClick ==
    /\ input_sensor = "InputSensor"
    /\ running
    /\ Len(click_times) < MaxClicks
    /\ \E p \in Positions, button \in Buttons, pressed \in BOOLEAN :
          /\ click_times' =
                 IF pressed
                 THEN DequeAppend(click_times, ClickEntry(p[1], p[2], button, now),
                                  ClickMaxlen)
                 ELSE click_times
          /\ event' = [kind |-> "click", x |-> p[1], y |-> p[2], button |-> button,
                       pressed |-> pressed]
    /\ op' = "mouse_click"
    /\ UNCHANGED <<now, settingVars, detectorVars, state, running, listeners,
                   start_time, keystroke_times, baseline_samples, raceVars,
                   fusionVars, sensorCallVars, threadVars, scoreVars, intentVars,
                   appVars, postureVars, audioVars, fileVars, grayVars>>

NextPrivacy ==
    \/ Advance
    \/ Start
    \/ ListenerKeyPress
    \/ ListenerMouseClick
    \/ SensorGetState

SpecPrivacy == InitSensor /\ [][NextPrivacy]_vars

----------------------------------------------------------------------------
(* Settings.save and Settings.load (config/settings.py). A Settings object  *)
(* is a record of its nine sections; each section is kept by one of its     *)
(* fields, which takes its default or one other value. The file holds the   *)
(* mapping save dumps; YAML writes and reads back booleans, integers and    *)
(* strings unchanged.                                                       *)

Sections == {"sensors", "detection", "breathing", "posture", "intent",
             "intervention", "ai", "meeting", "privacy"}

\* Settings()
DefaultSettings ==
    [sensors      |-> [screen |-> FALSE],
     detection    |-> [stress_threshold |-> 50],
     breathing    |-> [max_rate |-> 20],
     posture      |-> [check_interval |-> 10],
     intent       |-> [mismatch_threshold |-> 2],
     intervention |-> [style |-> "grayscale"],
     ai           |-> [model |-> "llama3"],
     meeting      |-> [decompression_duration |-> 60],
     privacy      |-> [log_content |-> FALSE]]

\* the Settings objects a caller may hold
SettingsValues ==
    [sensors      : {[screen |-> b] : b \in BOOLEAN},
     detection    : {[stress_threshold |-> n] : n \in {50, 75}},
     breathing    : {[max_rate |-> n] : n \in {20, 25}},
     posture      : {[check_interval |-> n] : n \in {10, 5}},
     intent       : {[mismatch_threshold |-> n] : n \in {2, 5}},
     intervention : {[style |-> x] : x \in {"grayscale", "blur"}},
     ai           : {[model |-> x] : x \in {"llama3", "mistral"}},
     meeting      : {[decompression_duration |-> n] : n \in {60, 30}},
     privacy      : {[log_content |-> b] : b \in BOOLEAN}]

\* the keys of the data dict save builds
SavedSections == {"sensors", "detection", "intervention", "ai"}

\* the sections load replaces when the key is in the data
LoadedSections == {"sensors", "detection", "breathing", "posture", "intent",
                   "intervention", "ai", "meeting"}

\* the data save dumps for the Settings object s
Dump(s) == [k \in SavedSections |-> s[k]]

\* the Settings object load builds from the data of the file
Parse(data) ==
    [k \in Sections |-> IF k \in LoadedSections /\ k \in DOMAIN data
                        THEN data[k]
                        ELSE DefaultSettings[k]]

\* s.save(path)
Save ==
    /\ file' = [exists |-> TRUE, data |-> Dump(settings)]
    /\ op' = "save"
    /\ UNCHANGED <<now, settingVars, detectorVars, state, sensorVars, raceVars,
                   fusionVars, sensorCallVars, threadVars, scoreVars, intentVars,
                   appVars, postureVars, audioVars, settings, loaded, event,
                   grayVars>>

\* Settings.load(path): the defaults when the file does not exist
Load ==
    /\ loaded' = IF file.exists THEN Parse(file.data) ELSE DefaultSettings
    /\ op' = "load"
    /\ UNCHANGED <<now, settingVars, detectorVars, state, sensorVars, raceVars,
                   fusionVars, sensorCallVars, threadVars, scoreVars, intentVars,
                   appVars, postureVars, audioVars, settings, file, event,
                   grayVars>>

InitSettings ==
    /\ InitDetector
    /\ cooldown = DefaultCooldown
    /\ stress_threshold = DefaultStressThreshold
    /\ input_sensor = "None"
    /\ window_size = WindowSize
    /\ InitSensorIdle
    /\ InitRaceIdle
    /\ InitFusionIdle
    /\ InitSensorCallIdle
    /\ InitThreadIdle
    /\ InitScoreIdle
    /\ InitIntentIdle
    /\ InitAppIdle
    /\ posture = <<>>
    /\ posture_state = <<>>
    /\ posture_call = <<>>
    /\ audio = <<>>
    /\ breathing_state = <<>>
    /\ audio_call = <<>>
    /\ settings \in SettingsValues
    /\ file = [exists |-> FALSE, data |-> <<>>]
    /\ loaded = DefaultSettings
    /\ event = [kind |-> "none"]
    /\ gray = <<>>
    /\ display = <<>>
    /\ fade = <<>>
    /\ restore = <<>>

NextSettings ==
    \/ Save
    \/ Load

SpecSettings == InitSettings /\ [][NextSettings]_vars

----------------------------------------------------------------------------
(* GrayscaleEffect: start_fade starts a thread that lowers the saturation   *)
(* step by step and then arms a timer that calls restore; restore can also  *)
(* be called from another thread at any moment. No lock protects _active,   *)
(* _saturation or _restore_timer, so the statements of the fade thread and  *)
(* of restore interleave. Saturation is counted in fade steps: FadeSteps is *)
(* full colour (1.0), 0 is grayscale. One fade thread and one restore call  *)
(* are followed at a time.                                                  *)

FadeSteps == 2

FullColour == FadeSteps

\* 1.0 - step_size * (i + 1), in fade steps
FadeLevel(i) == FadeSteps - (i + 1)

\* the fields of a new GrayscaleEffect
InitGrayscale ==
    /\ InitDetector
    /\ cooldown = DefaultCooldown
    /\ stress_threshold = DefaultStressThreshold
    /\ input_sensor = "None"
    /\ window_size = WindowSize
    /\ InitSensorIdle
    /\ InitRaceIdle
    /\ InitFusionIdle
    /\ InitSensorCallIdle
    /\ InitThreadIdle
    /\ InitScoreIdle
    /\ InitIntentIdle
    /\ InitAppIdle
    /\ posture = <<>>
    /\ posture_state = <<>>
    /\ posture_call = <<>>
    /\ audio = <<>>
    /\ breathing_state = <<>>
    /\ audio_call = <<>>
    /\ settings = <<>>
    /\ file = <<>>
    /\ loaded = <<>>
    /\ event = [kind |-> "none"]
    /\ gray = [active |-> FALSE, saturation |-> FullColour,
               restore_timer |-> FALSE]
    /\ display = FullColour
    /\ fade = [pc |-> "none", i |-> 0]
    /\ restore = [pc |-> "idle", returned |-> FALSE]

\* start_fade(): nothing when already active, else the fields are reset and
\* the fade thread is started
StartFade ==
    /\ restore.pc = "idle"
    /\ fade.pc \in {"none", "done"}
    /\ IF gray.active
          THEN UNCHANGED <<gray, fade, restore>>
          ELSE /\ gray' = [gray EXCEPT !.active = TRUE,
                                       !.saturation = FullColour]
               /\ fade' = [pc |-> "test", i |-> 0]
               /\ restore' = [restore EXCEPT !.returned = FALSE]
    /\ op' = "start_fade"
    /\ UNCHANGED <<now, settingVars, detectorVars, state, sensorVars, raceVars,
                   fusionVars, sensorCallVars, threadVars, scoreVars, intentVars,
                   appVars, postureVars, audioVars, fileVars, event, display>>

\* fade(): the head of the loop, for i in range(steps): if not _active: break
FadeTest ==
    /\ fade.pc = "test"
    /\ fade' = [fade EXCEPT !.pc = IF fade.i < FadeSteps /\ gray.active
                                      THEN "write"
                                      ELSE "after"]
    /\ op' = "fade_test"
    /\ UNCHANGED <<now, settingVars, detectorVars, state, sensorVars, raceVars,
                   fusionVars, sensorCallVars, threadVars, scoreVars, intentVars,
                   appVars, postureVars, audioVars, fileVars, event, gray,
                   display, restore>>

\* fade(): self._saturation = 1.0 - (step_size * (i + 1))
FadeWrite ==
    /\ fade.pc = "write"
    /\ gray' = [gray EXCEPT !.saturation = FadeLevel(fade.i)]
    /\ fade' = [fade EXCEPT !.pc = "apply"]
    /\ op' = "fade_write"
    /\ UNCHANGED <<now, settingVars, detectorVars, state, sensorVars, raceVars,
                   fusionVars, sensorCallVars, threadVars, scoreVars, intentVars,
                   appVars, postureVars, audioVars, fileVars, event, display,
                   restore>>

\* fade(): self._apply_saturation(self._saturation), then the sleep
FadeApply ==
    /\ fade.pc = "apply"
    /\ display' = gray.saturation
    /\ fade' = [pc |-> "test", i |-> fade.i + 1]
    /\ op' = "fade_apply"
    /\ UNCHANGED <<now, settingVars, detectorVars, state, sensorVars, raceVars,
                   fusionVars, sensorCallVars, threadVars, scoreVars, intentVars,
                   appVars, postureVars, audioVars, fileVars, event, gray,
                   restore>>

\* fade(): after the loop, if self._active: the test
FadeAfter ==
    /\ fade.pc = "after"
    /\ fade' = [fade EXCEPT !.pc = IF gray.active THEN "timer" ELSE "done"]
    /\ op' = "fade_after"
    /\ UNCHANGED <<now, settingVars, detectorVars, state, sensorVars, raceVars,
                   fusionVars, sensorCallVars, threadVars, scoreVars, intentVars,
                   appVars, postureVars, audioVars, fileVars, event, gray,
                   display, restore>>

\* fade(): the restore timer is created and started
FadeTimer ==
    /\ fade.pc = "timer"
    /\ gray' = [gray EXCEPT !.restore_timer = TRUE]
    /\ fade' = [fade EXCEPT !.pc = "done"]
    /\ op' = "fade_timer"
    /\ UNCHANGED <<now, settingVars, detectorVars, state, sensorVars, raceVars,
                   fusionVars, sensorCallVars, threadVars, scoreVars, intentVars,
                   appVars, postureVars, audioVars, fileVars, event, display,
                   restore>>

\* restore(): called by the owner at any moment, or by the timer once it is
\* armed; self._active = False
RestoreBegin ==
    /\ restore.pc = "idle"
    /\ \E caller \in {"owner", "timer"} :
          caller = "timer" => gray.restore_timer
    /\ gray' = [gray EXCEPT !.active = FALSE]
    /\ restore' = [pc |-> "saturation", returned |-> FALSE]
    /\ op' = "restore_begin"
    /\ UNCHANGED <<now, settingVars, detectorVars, state, sensorVars, raceVars,
                   fusionVars, sensorCallVars, threadVars, scoreVars, intentVars,
                   appVars, postureVars, audioVars, fileVars, event, display,
                   fade>>

\* restore(): self._saturation = 1.0
RestoreSaturation ==
    /\ restore.pc = "saturation"
    /\ gray' = [gray EXCEPT !.saturation = FullColour]
    /\ restore' = [restore EXCEPT !.pc = "cancel"]
    /\ op' = "restore_saturation"
    /\ UNCHANGED <<now, settingVars, detectorVars, state, sensorVars, raceVars,
                   fusionVars, sensorCallVars, threadVars, scoreVars, intentVars,
                   appVars, postureVars, audioVars, fileVars, event, display,
                   fade>>

\* restore(): the timer is cancelled and forgotten
RestoreCancel ==
    /\ restore.pc = "cancel"
    /\ gray' = [gray EXCEPT !.restore_timer = FALSE]
    /\ restore' = [restore EXCEPT !.pc = "apply"]
    /\ op' = "restore_cancel"
    /\ UNCHANGED <<now, settingVars, detectorVars, state, sensorVars, raceVars,
                   fusionVars, sensorCallVars, threadVars, scoreVars, intentVars,
                   appVars, postureVars, audioVars, fileVars, event, display,
                   fade>>

\* restore(): self._apply_saturation(1.0), and the call returns
RestoreApply ==
    /\ restore.pc = "apply"
    /\ display' = FullColour
    /\ restore' = [pc |-> "idle", returned |-> TRUE]
    /\ op' = "restore"
    /\ UNCHANGED <<now, settingVars, detectorVars, state, sensorVars, raceVars,
                   fusionVars, sensorCallVars, threadVars, scoreVars, intentVars,
                   appVars, postureVars, audioVars, fileVars, event, gray,
                   fade>>

NextGrayscale ==
    \/ StartFade
    \/ FadeTest
    \/ FadeWrite
    \/ FadeApply
    \/ FadeAfter
    \/ FadeTimer
    \/ RestoreBegin
    \/ RestoreSaturation
    \/ RestoreCancel
    \/ RestoreApply

SpecGrayscale == InitGrayscale /\ [][NextGrayscale]_vars

----------------------------------------------------------------------------
(* Claims about the arbiter (check_and_intervene), under SpecArbiter *)

\* C1: any two interventions one detector fires are at least cooldown seconds
\* apart, by the clock reading of their ticks and by the time stored as
\* _last_intervention_time; a CRITICAL tick inside the cooldown fires nothing.
C1_InterventionsCooldownApart ==
    \A i, j \in 1..Len(stress_log) :
        i < j => /\ stress_log[j].t - stress_log[i].t >= cooldown
                 /\ stress_log[j].at - stress_log[i].at >= cooldown

\* two interventions fired, with a suppressed CRITICAL tick between them
C1_Witness ==
    \E i, j \in 1..Len(stress_log) :
        /\ i < j
        /\ \E n \in 1..Len(tick_log) :
              /\ stress_log[i].tick < n
              /\ n < stress_log[j].tick
              /\ tick_log[n].level = CRITICAL

\* C2: a tick whose clock reading is at most cooldown after
\* _last_intervention_time (equality included) fires no intervention, whatever
\* its level.
C2_NoFireWithinCooldown ==
    (op = "check_and_intervene" /\ tick.t - tick.last_before <= cooldown)
        => /\ ret = FALSE
           /\ Len(stress_log) = tick.calls_before
           /\ last_intervention_time = tick.last_before

\* a CRITICAL tick exactly cooldown seconds after the last intervention
C2_Witness ==
    /\ op = "check_and_intervene"
    /\ tick.t - tick.last_before = cooldown
    /\ state.level = CRITICAL
    /\ ret = FALSE

\* C4: check_and_intervene returns True exactly when the tick's level is HIGH
\* or CRITICAL and the cooldown has elapsed; then it stores the current time
\* and invokes on_stress_detected once with the tick's level and score;
\* otherwise it invokes nothing and leaves _last_intervention_time alone.
C4_ReturnsTrueIffFires ==
    op = "check_and_intervene" =>
        LET due == /\ state.level \in {HIGH, CRITICAL}
                   /\ tick.t - tick.last_before > cooldown
        IN  /\ ret = due
            /\ due => /\ last_intervention_time = now
                      /\ Len(stress_log) = tick.calls_before + 1
                      /\ stress_log[Len(stress_log)].level = state.level
                      /\ stress_log[Len(stress_log)].score = state.score
            /\ ~due => /\ last_intervention_time = tick.last_before
                       /\ Len(stress_log) = tick.calls_before

\* a second intervention fired, at level HIGH
C4_Witness ==
    /\ op = "check_and_intervene"
    /\ ret = TRUE
    /\ state.level = HIGH
    /\ Len(stress_log) = 2

\* C5: on_calm_restored is invoked exactly on the ticks whose level is CALM
\* and whose previous tick's level was HIGH or CRITICAL.
C5_CalmRestoredOncePerTransition ==
    /\ \A n \in 1..Len(tick_log) :
          tick_log[n].calm_restored <=>
              /\ tick_log[n].level = CALM
              /\ n > 1
              /\ tick_log[n - 1].level \in {HIGH, CRITICAL}
    /\ calm_count = Cardinality({n \in 1..Len(tick_log) : tick_log[n].calm_restored})

\* the level sequence CALM, CALM, HIGH, CALM: one invocation, on the last tick
C5_Witness ==
    /\ Len(tick_log) = 4
    /\ tick_log[1].level = CALM
    /\ tick_log[2].level = CALM
    /\ tick_log[3].level = HIGH
    /\ tick_log[4].level = CALM
    /\ tick_log[4].calm_restored
    /\ calm_count = 1

----------------------------------------------------------------------------
(* Claims about concurrent callers, under SpecRace *)

----------------------------------------------------------------------------
(* Claims about the fusion as a function, under SpecFusion *)

\* C6: the level is CALM iff the composite is below 30, MODERATE iff it is in
\* [30, 60), HIGH iff it is in [60, 85), CRITICAL iff it is 85 or more, for
\* every composite in 0..100 (composite in tenths of a point).
C6_LevelThresholds ==
    op = "fusion" =>
        LET s == fusion_out.result.score
            l == fusion_out.result.level
        IN  /\ s \in 0..1000
            /\ (l = CALM) <=> (s < 300)
            /\ (l = MODERATE) <=> (300 <= s /\ s < 600)
            /\ (l = HIGH) <=> (600 <= s /\ s < 850)
            /\ (l = CRITICAL) <=> (s >= 850)

\* a composite of exactly 30 points
C6_Witness ==
    /\ op = "fusion"
    /\ fusion_out.result.score = 300
    /\ fusion_out.result.level = MODERATE

LevelRank(l) ==
    CASE l = CALM -> 0 [] l = MODERATE -> 1 [] l = HIGH -> 2 [] l = CRITICAL -> 3

\* C8: when one sub-score rises and the other two stay, the composite does not
\* fall and the level does not drop.
C8_FusionMonotone ==
    (op = "fusion" /\ fusion_out.raised # "none") =>
        /\ fusion_out.result.score >= fusion_out.before.score
        /\ LevelRank(fusion_out.result.level) >= LevelRank(fusion_out.before.level)

\* a rise of the breathing score alone that lifts the level from HIGH to CRITICAL
C8_Witness ==
    /\ op = "fusion"
    /\ fusion_out.raised = "breathing_score"
    /\ fusion_out.before.level = HIGH
    /\ fusion_out.result.level = CRITICAL

----------------------------------------------------------------------------
(* Claims about the shipped detector, under Spec *)

\* C7: the composite get_state returns is input_score * 0.5 + breathing_score *
\* 0.3 + posture_score * 0.2 with the absent breathing and posture signals
\* contributing 0 and no renormalisation (an input score of 100 yields 50);
\* two returns with the same input score carry the same composite and level,
\* whatever time passed between them.
C7_CompositeIsWeightedSum ==
    /\ [](op \in {"get_state", "check_and_intervene"} =>
             /\ state.score = 5 * state.input_score + 3 * state.breathing_score
                                  + 2 * state.posture_score
             /\ state.breathing_score = 0
             /\ state.posture_score = 0
             /\ state.input_score = 100 => state.score = 500)
    /\ [][state'.input_score = state.input_score =>
              /\ state'.score = state.score
              /\ state'.level = state.level]_vars

\* get_state returned with the input score at 100 and nothing else enabled
C7_Witness ==
    /\ op = "get_state"
    /\ state.input_score = 100
    /\ state.score = 500
    /\ now > Epoch

\* C9: a detector on which no input event was recorded and no intervention
\* fired reports CALM, score 0 and can_intervene True.
C9_FreshDetectorIsCalm ==
    (op = "get_state" /\ keystroke_times = <<>> /\ stress_log = <<>>) =>
        /\ state.level = CALM
        /\ state.score = 0
        /\ state.can_intervene = TRUE

\* get_state on the detector as constructed
C9_Witness ==
    /\ op = "get_state"
    /\ now = Epoch
    /\ ~running
    /\ start_time = 0
    /\ keystroke_times = <<>>
    /\ click_times = <<>>
    /\ baseline_samples = <<>>
    /\ tick_log = <<>>
    /\ last_intervention_time = 0

\* C10 as stated: get_state changes no state of the detector and none of its
\* input sensor.
C10_GetStateChangesNoState ==
    [][GetState => UNCHANGED <<last_intervention_time, current_level, stress_log,
                               calm_count, running, start_time, keystroke_times,
                               click_times, baseline_samples>>]_vars

\* C10 amended: get_state changes no field of the detector, no event buffer
\* and invokes no callback; the one thing it changes is the sensor's baseline
\* sample list, which gains the current keystroke rate when the sensor is
\* calibrating and the window holds a keystroke.
C10_GetStateOnlyAppendsBaselineSample ==
    [][GetState =>
          LET recent == Cardinality({n \in 1..Len(keystroke_times) :
                                        keystroke_times[n] > now - 10})
          IN  /\ UNCHANGED <<last_intervention_time, current_level, stress_log,
                             calm_count, running, start_time, keystroke_times,
                             click_times>>
              /\ baseline_samples' =
                     IF (now - start_time) < BaselineDuration /\ recent > 0
                     THEN Append(baseline_samples, recent)
                     ELSE baseline_samples]_vars

\* get_state has just appended a baseline sample
C10_Witness ==
    /\ op = "get_state"
    /\ running
    /\ (now - start_time) < BaselineDuration
    /\ keystroke_times # <<>>
    /\ baseline_samples # <<>>

----------------------------------------------------------------------------
(* Claims about the input sensor on its own, under SpecSensor *)

SensorRead == op \in {"sensor_get_state", "check_stress"}

C14_FreshSensorIsCalibrating ==
    (op = "sensor_get_state" /\ ~running /\ start_time = 0
        /\ keystroke_times = <<>> /\ click_times = <<>>)
        => /\ sensor_state.keystrokes_per_second.num = 0
           /\ sensor_state.current_stress_score = 0
           /\ sensor_state.is_calibrating = TRUE

\* C15: check_stress returns None and invokes no callback when the time since
\* the sensor's start is below baseline_duration; otherwise it returns the
\* score and invokes on_stress_detected with it exactly when the score is
\* >= 100, and returns None without a callback when the score is lower.
C15_CheckStressSuppressedWhileCalibrating ==
    op = "check_stress" =>
        IF now - start_time < BaselineDuration
        THEN sensor_ret = NoScore /\ sensor_calls = <<>>
        ELSE IF sensor_state.current_stress_score >= 100
             THEN /\ sensor_ret = sensor_state.current_stress_score
                  /\ sensor_calls = <<sensor_state.current_stress_score>>
             ELSE sensor_ret = NoScore /\ sensor_calls = <<>>

\* a check_stress during calibration with the window's count at the threshold
C15_Witness ==
    /\ op = "check_stress"
    /\ now - start_time < BaselineDuration
    /\ sensor_state.current_stress_score = 100
    /\ sensor_ret = NoScore

----------------------------------------------------------------------------
(* Claims about calibration in the shipped detector, under Spec *)

\* C16: a check_and_intervene made while the attached input sensor is
\* calibrating returns False and invokes no on_stress_detected.
C16_NoInterventionWhileCalibrating ==
    (op = "check_and_intervene" /\ input_sensor = "InputSensor" /\ running
        /\ tick.t - start_time < BaselineDuration)
        => /\ ret = FALSE
           /\ Len(stress_log) = tick.calls_before

\* a tick during calibration at which the sensor reports its highest score
C16_Witness ==
    /\ op = "check_and_intervene"
    /\ input_sensor = "InputSensor"
    /\ running
    /\ tick.t - start_time < BaselineDuration
    /\ state.input_score = 100
    /\ ret = FALSE

----------------------------------------------------------------------------
(* Claims about the stress score as a function, under SpecScore *)

----------------------------------------------------------------------------
(* Claims about the sensor under its threads, under SpecLock *)

EventKindsAll == {"key", "click", "move"}

\* the thread th appends an event of the given kind in this step
Appends(th, kind) ==
    pc[th] = "append" /\ pc'[th] = "release" /\ local[th].kind = kind

\* C12: each buffer holds at most its capacity and its timestamps are
\* non-decreasing in insertion order, in every state the threads reach; an
\* append to a buffer below capacity keeps every entry, and an append to a
\* full buffer drops the oldest entry and keeps every other in place.
C12_BuffersBoundedOrderedDropOldest ==
    /\ [](\A kind \in EventKindsAll :
             /\ Len(Buffer(kind)) <= Capacity(kind)
             /\ \A i, j \in 1..Len(Buffer(kind)) :
                   i < j => Timestamps(kind)[i] <= Timestamps(kind)[j])
    /\ [][\A kind \in EventKindsAll :
             (\E th \in Listeners : Appends(th, kind))
                 => IF Len(Buffer(kind)) = Capacity(kind)
                    THEN /\ Len(Buffer(kind)') = Capacity(kind)
                         /\ \A i \in 1..(Capacity(kind) - 1) :
                               Buffer(kind)'[i] = Buffer(kind)[i + 1]
                    ELSE /\ Len(Buffer(kind)') = Len(Buffer(kind)) + 1
                         /\ \A i \in 1..Len(Buffer(kind)) :
                               Buffer(kind)'[i] = Buffer(kind)[i]]_vars

\* the keyboard thread has appended to the full keystroke buffer while the
\* mouse thread waits for the lock
C12_Witness ==
    /\ pc["keyboard"] = "release"
    /\ local["keyboard"].full
    /\ pc["mouse"] = "acquire"
    /\ Len(keystroke_times) = ScaledKeystrokeMaxlen
    /\ keystroke_times[1] < keystroke_times[ScaledKeystrokeMaxlen]

\* C13: a thread inside `with self._lock` is the one holder of the lock;
\* while get_state holds it the buffers stay as they were when it took the
\* lock, and every count it has read is the count of the buffers at that
\* point; the SensorState it returns is made of these counts; every append
\* puts its whole event at the end of its buffer, and nothing else changes a
\* buffer.
C13_ReadsAndAppendsUnderOneLock ==
    /\ [](/\ \A th \in Threads : HoldsLock(th) => lock = th
          /\ HoldsLock("poller") =>
                LET my == local["poller"]
                    inside(times) ==
                        Cardinality({n \in 1..Len(times) : times[n] > my.t - window_size})
                IN  /\ keystroke_times = my.keys
                    /\ click_times = my.clicks
                    /\ mouse_positions = my.positions
                    /\ pc["poller"] \in {"clicks", "moves", "finish"}
                          => my.recent_keystrokes = inside(my.keys)
                    /\ pc["poller"] \in {"moves", "finish"}
                          => my.recent_clicks = inside(my.clicks)
                    /\ pc["poller"] = "finish"
                          => my.mouse_distance
                                = PathLength(RecentPositions(my.positions, my.t)))
    /\ [][/\ (pc["poller"] = "finish" /\ pc'["poller"] = "idle")
              => /\ sensor_state'.keystrokes_per_second.num
                       = local["poller"].recent_keystrokes
                 /\ sensor_state'.mouse_clicks_per_second.num
                       = local["poller"].recent_clicks
                 /\ sensor_state'.mouse_distance_per_second.num
                       = local["poller"].mouse_distance
          /\ \A kind \in EventKindsAll :
                IF \E th \in Listeners : Appends(th, kind)
                THEN /\ Len(Buffer(kind)') > 0
                     /\ Timestamps(kind)'[Len(Buffer(kind)')] = now
                     /\ kind = "move" =>
                           \E th \in Listeners :
                              /\ Appends(th, kind)
                              /\ mouse_positions'[Len(mouse_positions')].x = local[th].x
                              /\ mouse_positions'[Len(mouse_positions')].y = local[th].y
                ELSE Buffer(kind)' = Buffer(kind)]_vars

\* get_state has read all three buffers under the lock, the keystroke count
\* above 0, while both listener threads wait for the lock with an event each
C13_Witness ==
    /\ pc["poller"] = "finish"
    /\ lock = "poller"
    /\ pc["keyboard"] = "acquire"
    /\ pc["mouse"] = "acquire"
    /\ local["poller"].recent_keystrokes > 0
----------------------------------------------------------------------------
(* Claims about the intent checker, under SpecIntent *)

\* the step is a check() call on a running checker with an intent
EnabledCheck == op' = "check" /\ intent_running /\ current_intent # ""

\* C19: a check made less than check_interval after the last performed check
\* captures no screen, asks for no judgment, invokes no on_mismatch_detected
\* and leaves _last_check, _mismatch_start, _last_explanation and the intent
\* as they were; and any two judgments are at least check_interval apart.
C19_CheckInsideIntervalIsNoOp ==
    /\ [](\A i, j \in 1..Len(judgment_log) :
             i < j => judgment_log[j] - judgment_log[i] >= check_interval)
    /\ [][(EnabledCheck /\ now - last_check < check_interval)
             => /\ UNCHANGED <<last_check, mismatch_start, last_explanation,
                               current_intent, judgment_log, mismatch_log>>
                /\ check_log'.captures = 0
                /\ check_log'.judgments = 0
                /\ check_log'.callbacks = 0]_vars

\* a check one second after a performed check that found a mismatch, the
\* interval being longer: it is skipped and reports the running mismatch
C19_Witness ==
    /\ op = "check"
    /\ check_log.gate = "skipped"
    /\ Len(judgment_log) = 1
    /\ now = last_check + 1
    /\ mismatch_start = last_check
    /\ intent_state.mismatch_duration = 1

\* C20 as stated: every check on a running checker with an intent that the
\* interval gate lets through asks for exactly one judgment.
C20_PerformedCheckJudgesOnce ==
    [][(EnabledCheck /\ now - last_check >= check_interval)
          => Len(judgment_log') = Len(judgment_log) + 1]_vars

\* C20, amended: such a check captures the screen once and asks for exactly
\* one judgment when the capture yields an image, and for none when it
\* yields no image; _last_check is set to the time of the check either way.
C20_PerformedCheckJudgesOnceIfImage ==
    [][(EnabledCheck /\ now - last_check >= check_interval)
          => /\ check_log'.captures = 1
             /\ last_check' = now
             /\ IF check_log'.image = "None"
                THEN /\ judgment_log' = judgment_log
                     /\ check_log'.judgments = 0
                ELSE /\ judgment_log' = Append(judgment_log, now)
                     /\ check_log'.judgments = 1]_vars

\* a performed check whose capture failed, made once an earlier check had
\* been judged: no judgment is added and the next check must wait again
C20_Witness ==
    /\ op = "check"
    /\ check_log.gate = "performed"
    /\ check_log.image = "None"
    /\ check_log.judgments = 0
    /\ Len(judgment_log) = 1
    /\ last_check = now
    /\ judgment_log[1] < now
----------------------------------------------------------------------------
(* Claims about the mismatch tracking of the intent checker, under SpecIntent *)

\* the step is a check() call that obtained a judgment
JudgedCheck == op' = "check" /\ check_log'.judgments = 1

\* C21: _mismatch_start is always the time of the first mismatch judgment
\* since the last match judgment, set_intent or clear_intent (None when there
\* is none); on_mismatch_detected is invoked only by a check whose judgment
\* is a mismatch and at which that time lies at least mismatch_threshold back.
C21_MismatchFiresOnlyAfterThreshold ==
    /\ [](mismatch_start = mismatch_run)
    /\ [][mismatch_log' # mismatch_log
             => /\ JudgedCheck
                /\ ~intent_state'.last_match
                /\ mismatch_run # NoTime
                /\ now - mismatch_run >= mismatch_threshold
                /\ Len(mismatch_log') = Len(mismatch_log) + 1]_vars

\* with threshold 2 and checks one second apart, the third mismatch in a row
\* is the first to invoke the callback
C21_Witness ==
    /\ op = "check"
    /\ mismatch_threshold = 2
    /\ Len(judgment_log) = 3
    /\ mismatch_run = judgment_log[1]
    /\ now - mismatch_run = 2
    /\ Len(mismatch_log) = 1
    /\ mismatch_log[1].t = now

\* C22: over one unbroken run of mismatch judgments, however long,
\* on_mismatch_detected is invoked at most once.
C22_MismatchFiresOncePerRun ==
    mismatch_run # NoTime
        => Cardinality({n \in 1..Len(mismatch_log) :
                           mismatch_log[n].t >= mismatch_run}) <= 1

\* C23: a check whose judgment is a mismatch, made when the run of mismatches
\* has already lasted mismatch_threshold, invokes on_mismatch_detected, also
\* when it has been invoked for this run before.
C23_MismatchFiresAgainOnEveryCheck ==
    [][(JudgedCheck /\ ~intent_state'.last_match /\ mismatch_run # NoTime
           /\ now - mismatch_run >= mismatch_threshold)
          => /\ Len(mismatch_log') = Len(mismatch_log) + 1
             /\ mismatch_log'[Len(mismatch_log')].t = now
             /\ check_log'.callbacks = 1]_vars

\* two invocations within one run of mismatches
C23_Witness ==
    /\ op = "check"
    /\ mismatch_run # NoTime
    /\ Len(mismatch_log) = 2
    /\ mismatch_log[1].t >= mismatch_run + mismatch_threshold
    /\ mismatch_log[2].t = now
    /\ mismatch_log[1].t < now

\* C24: a check whose judgment is a match leaves no mismatch start; a check
\* whose judgment is a mismatch while no mismatch start is recorded records
\* its own time as the start, reports duration 0 and invokes no callback.
C24_MatchClearsMismatchOpensRun ==
    [][JudgedCheck
          => /\ intent_state'.last_match
                  => /\ mismatch_start' = NoTime
                     /\ intent_state'.mismatch_duration = 0
             /\ (~intent_state'.last_match /\ mismatch_start = NoTime)
                  => /\ mismatch_start' = now
                     /\ intent_state'.mismatch_duration = 0
                     /\ mismatch_log' = mismatch_log]_vars

\* mismatch, match, mismatch one second apart with threshold 1: the third
\* check opens a new run and invokes nothing
C24_Witness ==
    /\ op = "check"
    /\ mismatch_threshold = 1
    /\ Len(judgment_log) = 3
    /\ ~intent_state.last_match
    /\ mismatch_start = now
    /\ mismatch_log = <<>>
    /\ intent_state.current_intent = "debugging"

\* C25: set_intent leaves no mismatch start and an empty explanation, whatever
\* they were; a callback after it needs a mismatch judgment made after it
\* that lies at least mismatch_threshold back.
C25_SetIntentStartsAfresh ==
    /\ [](op = "set_intent" => (mismatch_start = NoTime /\ last_explanation = ""))
    /\ [][mismatch_log' # mismatch_log
             => /\ mismatch_start # NoTime
                /\ mismatch_start = mismatch_run
                /\ now - mismatch_start >= mismatch_threshold]_vars

\* a set_intent made after the last check had reported a running mismatch
C25_Witness ==
    /\ op = "set_intent"
    /\ ~intent_state.last_match
    /\ intent_state.mismatch_duration > 0
    /\ intent_state.last_explanation = "social media"
    /\ mismatch_start = NoTime
    /\ last_explanation = ""

\* C26: a check whose judgment could not be obtained counts as a match: it
\* invokes no callback and leaves no mismatch start, also when the mismatch
\* had lasted mismatch_threshold before.
C26_FailedJudgmentIsAMatch ==
    (op = "check" /\ check_log.judgments = 1
        /\ intent_state.last_explanation = "Could not analyze")
        => /\ intent_state.last_match
           /\ check_log.callbacks = 0
           /\ mismatch_start = NoTime
           /\ \A n \in 1..Len(mismatch_log) : mismatch_log[n].t < now

\* a failed judgment on the check after one that invoked the callback
C26_Witness ==
    /\ op = "check"
    /\ check_log.judgments = 1
    /\ intent_state.last_explanation = "Could not analyze"
    /\ Len(mismatch_log) = 1
    /\ mismatch_log[1].t < now
    /\ check_log.callbacks = 0

\* C27: after clear_intent the intent, the mismatch start and the explanation
\* are empty; a check on a tracker that is not running or has no intent
\* returns the default IntentState with is_enabled false and invokes nothing.
C27_ClearedTrackerIsEmpty ==
    /\ op = "clear_intent"
          => (current_intent = "" /\ mismatch_start = NoTime /\ last_explanation = "")
    /\ (op = "check" /\ check_log.gate = "disabled")
          => /\ intent_state = IntentState
             /\ check_log.judgments = 0
             /\ check_log.callbacks = 0
----------------------------------------------------------------------------
(* Claims about start() and stop(), under SpecLifecycle *)

\* C30: every InputSensor.stop() ends with _running false and no listener
\* attached and changes nothing else, every IntentChecker.stop() ends with
\* _running false and changes nothing else, in whatever state they are
\* called; a stop() that follows a start() takes _running from true to false.
C30_StopIsIdempotent ==
    /\ [](op = "stop" => (~running /\ listeners = {}))
    /\ [](op = "intent_stop" => ~intent_running)
    /\ [][op' = "stop"
             => UNCHANGED <<start_time, keystroke_times, click_times,
                            baseline_samples, intentVars>>]_vars
    /\ [][op' = "intent_stop"
             => UNCHANGED <<sensorVars, current_intent, last_check,
                            mismatch_start, last_explanation>>]_vars
    /\ [][(op = "start" /\ op' = "stop") => (running /\ ~running')]_vars
    /\ [][(op = "intent_start" /\ intent_running /\ op' = "intent_stop")
             => ~intent_running']_vars

\* a sensor stopped after it was started and had recorded a key press, next
\* to an intent checker that is still running
C30_Witness ==
    /\ op = "stop"
    /\ ~running
    /\ listeners = {}
    /\ start_time >= Epoch
    /\ Len(keystroke_times) >= 1
    /\ intent_running
----------------------------------------------------------------------------
(* Claims about construction with invalid settings, under SpecConfig *)

\* C28: no InputSensor with window_size <= 0 is ever asked for get_state and
\* no StressDetector with cooldown <= 0 ever runs check_and_intervene,
\* because their construction was rejected.
C28_NonPositiveSettingsNeverServe ==
    /\ op = "sensor_get_state" => window_size > 0
    /\ op = "check_and_intervene" => cooldown > 0
----------------------------------------------------------------------------
(* Claims about the monitoring loop, under SpecLoop *)

\* C29: while _running is true the monitor thread is inside _monitor_loop,
\* whatever error a component call has raised.
C29_MonitorLoopSurvivesErrors ==
    (app_running /\ error # "none") => monitor # "terminated"
----------------------------------------------------------------------------
(* Claims about the auxiliary sensors, under SpecAuxiliary *)

\* C31: a running PostureDetector whose acquisition found no face returns the
\* angle of the previous successful acquisition with is_enabled true and
\* keeps it as _last_angle; a running AudioSensor whose estimation raised
\* returns the _last_rate it had, with is_enabled true, and keeps it; a
\* sensor that is not running returns is_enabled false.
C31_FailedAcquisitionReturnsCache ==
    /\ (op = "check_posture" /\ posture_call.gate = "acquired"
           /\ ~posture_call.acquired.face_detected /\ posture_call.before # <<>>)
          => /\ posture_state.is_enabled
             /\ posture_state.neck_angle = posture_call.before[1]
             /\ posture.last_angle = posture_call.before[1]
    /\ (op = "audio_get_state" /\ audio_call.raised)
          => /\ breathing_state.is_enabled
             /\ breathing_state.breaths_per_minute = audio_call.before
             /\ audio.last_rate = audio_call.before
    /\ (op = "check_posture" /\ posture_call.gate = "disabled")
          => ~posture_state.is_enabled
    /\ (op = "audio_get_state" /\ ~audio_call.estimated)
          => ~breathing_state.is_enabled

\* C32: a check_posture call made less than check_interval after the last
\* acquisition returns the PostureState that acquisition returned and
\* invokes no callback.
C32_CachedCallReturnsAcquisition ==
    (op = "check_posture" /\ posture_call.gate = "cached")
        => /\ posture_state = posture_call.acquired
           /\ posture_call.on_bad_posture = 0
           /\ posture_call.on_posture_corrected = 0
           /\ now - posture.last_check < posture.check_interval
----------------------------------------------------------------------------
(* Claims about settings in the running application, under SpecSettingsSave *)

\* C33: no step changes the cooldown an existing detector applies or the
\* stress threshold its input sensor applies.
C33_SettingsFixedAfterConstruction ==
    [][cooldown' = cooldown /\ stress_threshold' = stress_threshold]_vars
----------------------------------------------------------------------------
(* Claims about the content of input events, under SpecPrivacy *)

\* C34: a key press stores the time of the press at the end of the keystroke
\* times and a pressed click the time of the click at the end of the click
\* times, whatever the key, the button and the position; a release stores
\* nothing; no event changes any other field of the sensor, so the state and
\* every SensorState read from it are determined by the event times alone.
C34_StoredStateDependsOnTimesOnly ==
    /\ [][op' = "key_press"
             => /\ keystroke_times' = Append(keystroke_times, now)
                /\ UNCHANGED <<click_times, baseline_samples, start_time,
                               running, listeners, mouse_positions,
                               sensor_state>>]_vars
    /\ [][op' = "mouse_click"
             => /\ click_times' = IF event'.pressed
                                  THEN Append(click_times, now)
                                  ELSE click_times
                /\ UNCHANGED <<keystroke_times, baseline_samples, start_time,
                               running, listeners, mouse_positions,
                               sensor_state>>]_vars
    /\ [][op' = "sensor_get_state"
             => sensor_state' = SensorStateAt(now, IsCalibrating(now, start_time),
                                              keystroke_times, click_times,
                                              mouse_positions, baseline_samples')]_vars

\* a SensorState read after a press of the enter key and a right click away
\* from the origin, both inside the window
C34_Witness ==
    /\ op = "sensor_get_state"
    /\ event.kind = "click"
    /\ event.button = "Button.right"
    /\ event.x # 0
    /\ event.pressed
    /\ Len(keystroke_times) = 2
    /\ click_times = <<now>>
    /\ sensor_state.keystrokes_per_second.num = 2
    /\ sensor_state.mouse_clicks_per_second.num = 1
----------------------------------------------------------------------------
(* Claims about Settings.save and Settings.load, under SpecSettings *)

\* C35: the Settings object loaded from the file a Settings object was saved
\* to equals that object in every section.
C35_SaveLoadRoundTrip ==
    (op = "load" /\ file.exists) => \A k \in Sections : loaded[k] = settings[k]
----------------------------------------------------------------------------
(* Claims about what the arbiter remembers between ticks, under SpecArbiter *)

\* C36: every intervention fires on a tick whose own level is HIGH or
\* CRITICAL, with that level; a tick whose level is CALM or MODERATE fires
\* none, also when it is the first tick after a cooldown during which a HIGH
\* or CRITICAL tick was suppressed.
C36_SuppressedEscalationNotRemembered ==
    /\ \A i \in 1..Len(stress_log) :
          /\ tick_log[stress_log[i].tick].level \in {HIGH, CRITICAL}
          /\ stress_log[i].level = tick_log[stress_log[i].tick].level
    /\ (op = "check_and_intervene" /\ state.level \in {CALM, MODERATE})
          => (ret = FALSE /\ Len(stress_log) = tick.calls_before)

\* a HIGH tick fires, a CRITICAL tick inside the cooldown is suppressed, and
\* the MODERATE tick after the cooldown fires nothing
C36_Witness ==
    /\ op = "check_and_intervene"
    /\ Len(tick_log) = 3
    /\ tick_log[1].level = HIGH
    /\ tick_log[2].level = CRITICAL
    /\ tick_log[3].level = MODERATE
    /\ Len(stress_log) = 1
    /\ stress_log[1].tick = 1
    /\ tick.t - tick.last_before > cooldown
    /\ ret = FALSE

\* C38: on_calm_restored is invoked on a tick only when the tick before it
\* had level HIGH or CRITICAL; on a descent HIGH or CRITICAL, MODERATE, CALM
\* over three consecutive ticks it is invoked on neither of the last two.
C38_CalmRestoredComparesTwoTicks ==
    /\ \A n \in 1..Len(tick_log) :
          tick_log[n].calm_restored
              => (n > 1 /\ tick_log[n - 1].level \in {HIGH, CRITICAL})
    /\ \A n \in 3..Len(tick_log) :
          (/\ tick_log[n - 2].level \in {HIGH, CRITICAL}
           /\ tick_log[n - 1].level = MODERATE
           /\ tick_log[n].level = CALM)
              => (~tick_log[n - 1].calm_restored /\ ~tick_log[n].calm_restored)

\* HIGH with an intervention, then MODERATE, then CALM: no invocation
C38_Witness ==
    /\ Len(tick_log) = 3
    /\ tick_log[1].level = HIGH
    /\ tick_log[2].level = MODERATE
    /\ tick_log[3].level = CALM
    /\ Len(stress_log) = 1
    /\ stress_log[1].tick = 1
    /\ calm_count = 0

----------------------------------------------------------------------------
(* Claims about the reach of the shipped detector, under Spec *)

\* C37: with breathing and posture fixed at 0 every DetectorState has a
\* composite of at most 50 and level CALM or MODERATE, check_and_intervene
\* has never returned True, and neither callback has ever been invoked.
C37_ShippedCompositeAtMostFifty ==
    /\ state.score <= 500
    /\ state.level \in {CALM, MODERATE}
    /\ current_level \in {CALM, MODERATE}
    /\ ret = FALSE
    /\ stress_log = <<>>
    /\ calm_count = 0
    /\ \A n \in 1..Len(tick_log) :
          tick_log[n].level \in {CALM, MODERATE} /\ ~tick_log[n].calm_restored

\* a tick at which the input score is at its maximum of 100
C37_Witness ==
    /\ op = "check_and_intervene"
    /\ state.input_score = 100
    /\ state.score = 500
    /\ state.level = MODERATE
    /\ state.can_intervene
    /\ ret = FALSE
----------------------------------------------------------------------------
(* Claims about the grayscale effect, under SpecGrayscale *)

\* C39: once restore() has returned and start_fade() has not been called
\* since, the saturation last applied to the display and the stored
\* saturation are full colour and the effect is not active.
C39_RestoreLeavesFullColour ==
    (restore.pc = "idle" /\ restore.returned)
        => (/\ display = FullColour
            /\ gray.saturation = FullColour
            /\ ~gray.active)
=============================================================================
